---- MODULE Spec2Model ----
(***************************************************************************)
(* Model of the volume manager forms of gui/storage/forms.py               *)
(* (VolumeMixin, VolumeManagerForm, VolumeVdevForm, VdevFormSet) and of    *)
(* the cron job service of middlewared/plugins/cron.py (CronJobService).   *)
(*                                                                         *)
(* Python strings that the code inspects character by character (volume   *)
(* names, cron fields, user names) are tuples of one-character strings.    *)
(* A disk list is the tuple of the disk numbers (da1, da2, ...).           *)
(***************************************************************************)
EXTENDS Integers, Sequences, FiniteSets, TLC

(***************************************************************************)
(* Bounds of the model.                                                    *)
(***************************************************************************)
MaxRows == 2
Slack == 1
MaxFieldLen == 3
MaxRequests == 4

(***************************************************************************)
(* Characters.                                                             *)
(***************************************************************************)
LowerLetters ==
    {"a","b","c","d","e","f","g","h","i","j","k","l","m",
     "n","o","p","q","r","s","t","u","v","w","x","y","z"}

UpperLetters ==
    {"A","B","C","D","E","F","G","H","I","J","K","L","M",
     "N","O","P","Q","R","S","T","U","V","W","X","Y","Z"}

Digits == {"0","1","2","3","4","5","6","7","8","9"}

StartsWith(s, p) == Len(s) >= Len(p) /\ SubSeq(s, 1, Len(p)) = p

(***************************************************************************)
(* Vdev types.                                                             *)
(***************************************************************************)
DataTypes == {"mirror", "stripe", "raidz", "raidz2", "raidz3"}

AuxTypes == {"cache", "log", "log mirror", "spare"}

\* The smallest disk count clean_disks accepts for a vdev type.
MinDisks(t) ==
    CASE t = "mirror" -> 2
      [] t = "raidz"  -> 3
      [] t = "raidz2" -> 4
      [] t = "raidz3" -> 5
      [] OTHER        -> 0

DiskList(n) == [i \in 1..n |-> i]

(***************************************************************************)
(* VolumeVdevForm                                                          *)
(***************************************************************************)
\* clean_disks with the raidz3 bound one too low.
clean_disks_raidz3_low(vdev, disks) ==
    IF vdev = "mirror" /\ Len(disks) < 2 THEN [raised |-> TRUE, need |-> 2, value |-> <<>>]
    ELSE IF vdev = "raidz" /\ Len(disks) < 3 THEN [raised |-> TRUE, need |-> 3, value |-> <<>>]
    ELSE IF vdev = "raidz2" /\ Len(disks) < 4 THEN [raised |-> TRUE, need |-> 4, value |-> <<>>]
    ELSE IF vdev = "raidz3" /\ Len(disks) < 4 THEN [raised |-> TRUE, need |-> 5, value |-> <<>>]
    ELSE [raised |-> FALSE, need |-> 0, value |-> disks]

\* clean_disks: the evaluated disk list, or a ValidationError naming the
\* minimum ("You need at least %d disks").
clean_disks(vdev, disks) ==
    IF vdev = "mirror" /\ Len(disks) < 2 THEN [raised |-> TRUE, need |-> 2, value |-> <<>>]
    ELSE IF vdev = "raidz" /\ Len(disks) < 3 THEN [raised |-> TRUE, need |-> 3, value |-> <<>>]
    ELSE IF vdev = "raidz2" /\ Len(disks) < 4 THEN [raised |-> TRUE, need |-> 4, value |-> <<>>]
    ELSE IF vdev = "raidz3" /\ Len(disks) < 5 THEN [raised |-> TRUE, need |-> 5, value |-> <<>>]
    ELSE [raised |-> FALSE, need |-> 0, value |-> disks]

\* VolumeVdevForm.clean: a log row with more than one disk becomes "log mirror".
\* cd is the row's cleaned_data; the row's disks are absent from it
\* (has_disks = FALSE) when clean_disks raised.
VolumeVdevForm_clean(cd) ==
    IF cd.vdevtype = "log" /\ cd.has_disks /\ Len(cd.disks) > 1
    THEN [cd EXCEPT !.vdevtype = "log mirror"]
    ELSE cd

\* One row of the formset, cleaned: the fields in declaration order, then
\* clean().  A row left blank (vdevtype "") is an unchanged extra form: it has
\* no errors and an empty cleaned_data.
VolumeVdevForm_full_clean(row) ==
    IF row.vdevtype = ""
    THEN [errors |-> FALSE, need |-> 0,
          cleaned_data |-> [vdevtype |-> "", has_disks |-> FALSE, disks |-> <<>>]]
    ELSE LET d == clean_disks(row.vdevtype, row.disks)
             cd == [vdevtype |-> row.vdevtype,
                    has_disks |-> ~d.raised,
                    disks |-> d.value]
         IN [errors |-> d.raised, need |-> d.need,
             cleaned_data |-> VolumeVdevForm_clean(cd)]

(***************************************************************************)
(* VdevFormSet                                                             *)
(***************************************************************************)
NoError == [code |-> "", name |-> ""]

Error(code, name) == [code |-> code, name |-> name]

\* _clean_vdevtype that keeps 'log mirror' apart from 'log'.
_clean_vdevtype_apart(vdevfound, vdevtype) ==
    IF vdevtype \in {"cache", "log", "log mirror", "spare"}
    THEN IF vdevtype \in vdevfound
         THEN [raised |-> TRUE, name |-> vdevtype, vdevfound |-> vdevfound]
         ELSE [raised |-> FALSE, name |-> vdevtype, vdevfound |-> vdevfound \cup {vdevtype}]
    ELSE [raised |-> FALSE, name |-> "", vdevfound |-> vdevfound]

\* _clean_vdevtype: vdevfound is the set of names whose entry is True.
_clean_vdevtype(vdevfound, vdevtype) ==
    IF vdevtype \in {"cache", "log", "log mirror", "spare"}
    THEN LET name == IF vdevtype = "log mirror" THEN "log" ELSE vdevtype
         IN IF name \in vdevfound
            THEN [raised |-> TRUE, name |-> name, vdevfound |-> vdevfound]
            ELSE [raised |-> FALSE, name |-> name, vdevfound |-> vdevfound \cup {name}]
    ELSE [raised |-> FALSE, name |-> "", vdevfound |-> vdevfound]

\* The loop for a new volume comparing each data row with the first one only
\* while forgetting to remember it (datatype stays None).
RECURSIVE CreateLoop_forgetful(_, _, _, _, _)
CreateLoop_forgetful(forms, i, vdevfound, has_datavdev, datatype) ==
    IF i > Len(forms)
    THEN IF ~has_datavdev THEN Error("need_data", "") ELSE NoError
    ELSE LET vdevtype == forms[i].cleaned_data.vdevtype IN
         IF vdevtype \in {"mirror", "stripe", "raidz", "raidz2", "raidz3"}
         THEN IF datatype # "" /\ datatype # vdevtype
              THEN Error("different_types", vdevtype)
              ELSE CreateLoop_forgetful(forms, i + 1, vdevfound, TRUE, datatype)
         ELSE LET r == _clean_vdevtype(vdevfound, vdevtype) IN
              IF r.raised
              THEN Error("only_one_row", r.name)
              ELSE CreateLoop_forgetful(forms, i + 1, r.vdevfound, has_datavdev, datatype)

\* The loop of clean() for a new volume (lines 410-432); datatype "" is None.
RECURSIVE CreateLoop(_, _, _, _, _)
CreateLoop(forms, i, vdevfound, has_datavdev, datatype) ==
    IF i > Len(forms)
    THEN IF ~has_datavdev THEN Error("need_data", "") ELSE NoError
    ELSE LET vdevtype == forms[i].cleaned_data.vdevtype IN
         IF vdevtype \in {"mirror", "stripe", "raidz", "raidz2", "raidz3"}
         THEN IF datatype # "" /\ datatype # vdevtype
              THEN Error("different_types", vdevtype)
              ELSE CreateLoop(forms, i + 1, vdevfound, TRUE, vdevtype)
         ELSE LET r == _clean_vdevtype(vdevfound, vdevtype) IN
              IF r.raised
              THEN Error("only_one_row", r.name)
              ELSE CreateLoop(forms, i + 1, r.vdevfound, has_datavdev, datatype)

\* The first loop of clean() for an existing pool (lines 438-450).
RECURSIVE AddAuxLoop(_, _, _)
AddAuxLoop(forms, i, vdevfound) ==
    IF i > Len(forms)
    THEN NoError
    ELSE LET vdevtype == forms[i].cleaned_data.vdevtype IN
         IF vdevtype = ""
         THEN AddAuxLoop(forms, i + 1, vdevfound)
         ELSE IF vdevtype \in {"cache", "log", "log mirror", "spare"}
         THEN LET r == _clean_vdevtype(vdevfound, vdevtype) IN
              IF r.raised
              THEN Error("only_one_row", r.name)
              ELSE AddAuxLoop(forms, i + 1, r.vdevfound)
         ELSE AddAuxLoop(forms, i + 1, vdevfound)

\* The inner loop without the comparison of the disk counts.
RECURSIVE AddRowLoop_typeonly(_, _, _)
AddRowLoop_typeonly(forms, i, vdev) ==
    IF i > Len(forms)
    THEN NoError
    ELSE LET vdevtype == forms[i].cleaned_data.vdevtype IN
         IF vdevtype = ""
         THEN AddRowLoop_typeonly(forms, i + 1, vdev)
         ELSE IF vdevtype \in {"cache", "log", "log mirror", "spare"}
         THEN AddRowLoop_typeonly(forms, i + 1, vdev)
         ELSE IF vdev.type # vdevtype
         THEN Error("pool_type", vdev.type)
         ELSE AddRowLoop_typeonly(forms, i + 1, vdev)

\* The inner loop of lines 454-491 for one vdev of the pool.
RECURSIVE AddRowLoop(_, _, _)
AddRowLoop(forms, i, vdev) ==
    IF i > Len(forms)
    THEN NoError
    ELSE LET vdevtype == forms[i].cleaned_data.vdevtype
             disks == forms[i].cleaned_data.disks
         IN
         IF vdevtype = ""
         THEN AddRowLoop(forms, i + 1, vdev)
         ELSE IF vdevtype \in {"cache", "log", "log mirror", "spare"}
         THEN AddRowLoop(forms, i + 1, vdev)
         ELSE IF vdev.type # vdevtype
         THEN Error("pool_type", vdev.type)
         ELSE IF Len(disks) # vdev.ndisks
         THEN Error("pool_count", vdev.type)
         ELSE AddRowLoop(forms, i + 1, vdev)

\* The outer loop over zpool.data (line 452).
RECURSIVE AddPoolLoop(_, _, _)
AddPoolLoop(forms, data, k) ==
    IF k > Len(data)
    THEN NoError
    ELSE LET e == AddRowLoop(forms, 1, data[k]) IN
         IF e.code # "" THEN e ELSE AddPoolLoop(forms, data, k + 1)

\* VdevFormSet.clean: the ValidationError it raises, or NoError.  forms are
\* the cleaned rows, volume_add the parent form's cleaned volume_add, data
\* the data vdevs notifier().zpool_parse reports for that pool.
VdevFormSet_clean(forms, volume_add, data) ==
    IF \E i \in 1..Len(forms) : forms[i].errors
    THEN NoError
    ELSE IF volume_add = <<>>
    THEN CreateLoop(forms, 1, {}, FALSE, "")
    ELSE LET e == AddAuxLoop(forms, 1, {}) IN
         IF e.code # "" THEN e ELSE AddPoolLoop(forms, data, 1)

\* The formset bound to the layout rows: every row cleaned, then clean().
VdevFormSet_full_clean(layout, volume_add, data) ==
    LET forms == [i \in 1..Len(layout) |-> VolumeVdevForm_full_clean(layout[i])]
        e == VdevFormSet_clean(forms, volume_add, data)
    IN [forms |-> forms,
        non_form_error |-> e,
        is_valid |-> (\A i \in 1..Len(forms) : ~forms[i].errors) /\ e.code = ""]

(***************************************************************************)
(* Form fields                                                             *)
(***************************************************************************)
Whitespace == {" ", "\n", "\t"}

\* str.strip(): the whitespace at both ends removed.
RECURSIVE strip(_)
strip(s) ==
    IF s # <<>> /\ s[1] \in Whitespace THEN strip(Tail(s))
    ELSE IF s # <<>> /\ s[Len(s)] \in Whitespace THEN strip(SubSeq(s, 1, Len(s) - 1))
    ELSE s

\* forms.CharField(max_length=..., required=...).clean: the value stripped,
\* refused when it is empty and required or longer than max_length.  A field
\* whose error is not "" is absent from cleaned_data and its clean_<field>
\* method is not called.
CharField_clean(value, max_length, required) ==
    IF strip(value) = <<>>
    THEN [error |-> IF required THEN "required" ELSE "", value |-> <<>>]
    ELSE IF Len(strip(value)) > max_length
    THEN [error |-> "max_length", value |-> <<>>]
    ELSE [error |-> "", value |-> strip(value)]

\* What '$' leaves of a string for the pattern before it: a newline that
\* ends the string is not part of the match.
BeforeDollar(s) ==
    IF Len(s) > 0 /\ s[Len(s)] = "\n" THEN SubSeq(s, 1, Len(s) - 1) ELSE s

(***************************************************************************)
(* VolumeMixin and VolumeManagerForm validation                            *)
(***************************************************************************)
NameChars == LowerLetters \cup UpperLetters \cup Digits \cup {"-", "_", "."}

\* re.search(r'^[a-z][-_.a-z0-9]*$', vname, re.I): '$' also matches just
\* before a newline that ends the string.
MatchesVolumeName(vname) ==
    LET body == IF Len(vname) > 0 /\ vname[Len(vname)] = "\n"
                THEN SubSeq(vname, 1, Len(vname) - 1)
                ELSE vname
    IN /\ Len(body) > 0
       /\ body[1] \in LowerLetters \cup UpperLetters
       /\ \A i \in 2..Len(body) : body[i] \in NameChars

\* clean_volume_name that lets a name starting with 'spare' through.
clean_volume_name_spare(vname, names) ==
    IF vname # <<>> /\ ~MatchesVolumeName(vname) THEN "invalid_name"
    ELSE IF vname \in names THEN "exists"
    ELSE IF vname = <<"l", "o", "g">> THEN "reserved"
    ELSE IF \/ (Len(vname) >= 2 /\ vname[1] = "c" /\ vname[2] \in Digits)
            \/ StartsWith(vname, <<"m", "i", "r", "r", "o", "r">>)
            \/ StartsWith(vname, <<"r", "a", "i", "d", "z">>)
    THEN "reserved_prefix"
    ELSE ""

\* clean_volume_name: "" when the name is accepted, else the error raised.
\* names is the set of vol_name values of the Volume rows.
clean_volume_name(vname, names) ==
    IF vname # <<>> /\ ~MatchesVolumeName(vname) THEN "invalid_name"
    ELSE IF vname \in names THEN "exists"
    ELSE IF vname = <<"l", "o", "g">> THEN "reserved"
    ELSE IF \/ (Len(vname) >= 2 /\ vname[1] = "c" /\ vname[2] \in Digits)
            \/ StartsWith(vname, <<"m", "i", "r", "r", "o", "r">>)
            \/ StartsWith(vname, <<"s", "p", "a", "r", "e">>)
            \/ StartsWith(vname, <<"r", "a", "i", "d", "z">>)
    THEN "reserved_prefix"
    ELSE ""

\* The error of the volume_name field: the field's own, or the one
\* clean_volume_name raises for the field's value.
VolumeNameError(field, names) ==
    IF field.error # "" THEN field.error ELSE clean_volume_name(field.value, names)

\* clean() (lines 246-258): got is volume_name as cleaned_data has it (a
\* field whose clean raised is absent), and the name that stands is got or,
\* failing that, volume_add.
VolumeManagerForm_clean(name_error, got, volume_add) ==
    [name_error |-> name_error,
     all_error |-> ((IF got # <<>> THEN got ELSE volume_add) = <<>>),
     volume_name |-> IF got # <<>> THEN got ELSE volume_add,
     volume_add |-> volume_add,
     is_valid |-> name_error = "" /\ (IF got # <<>> THEN got ELSE volume_add) # <<>>]

\* The parent form cleaned: the fields volume_name and volume_add
\* (CharField(max_length=30, required=False)), clean_volume_name, then
\* clean().
VolumeManagerForm_full_clean(volume_name, volume_add, names) ==
    VolumeManagerForm_clean(
        VolumeNameError(CharField_clean(volume_name, 30, FALSE), names),
        IF VolumeNameError(CharField_clean(volume_name, 30, FALSE), names) = ""
        THEN CharField_clean(volume_name, 30, FALSE).value
        ELSE <<>>,
        CharField_clean(volume_add, 30, FALSE).value)

(***************************************************************************)
(* VolumeManagerForm.save                                                  *)
(***************************************************************************)
Call(op, groups, opt) == [op |-> op, groups |-> groups, opt |-> opt]

\* grouped (lines 283-291): the rows that have a vdev type, keyed by row index.
RECURSIVE Grouped(_, _)
Grouped(forms, i) ==
    IF i > Len(forms)
    THEN <<>>
    ELSE LET cd == forms[i].cleaned_data IN
         IF cd.vdevtype = ""
         THEN Grouped(forms, i + 1)
         ELSE <<[row |-> i, type |-> cd.vdevtype, disks |-> cd.disks]>>
              \o Grouped(forms, i + 1)

\* The calls of the try block with the groups attached last row first.
SaveTryCalls_backwards(add, grouped, init_rand, dedup) ==
    IF add
    THEN [k \in 1..Len(grouped) |->
             Call("zfs_volume_attach_group", <<grouped[Len(grouped) + 1 - k]>>, "")]
    ELSE <<Call("create_volume", grouped, IF init_rand THEN "init_rand" ELSE "")>>
         \o (IF dedup # "" THEN <<Call("zfs_set_option", <<>>, dedup)>> ELSE <<>>)
         \o <<Call("Scrub.create", <<>>, "")>>

\* The calls of the try block after the Volume row is looked up or saved
\* (lines 293-305), in the order they are issued.
SaveTryCalls(add, grouped, init_rand, dedup) ==
    IF add
    THEN [k \in 1..Len(grouped) |->
             Call("zfs_volume_attach_group", <<grouped[k]>>, "")]
    ELSE <<Call("create_volume", grouped, IF init_rand THEN "init_rand" ELSE "")>>
         \o (IF dedup # "" THEN <<Call("zfs_set_option", <<>>, dedup)>> ELSE <<>>)
         \o <<Call("Scrub.create", <<>>, "")>>

\* The calls after the try block (lines 313-336).  vol_encrypt is the field of
\* the Volume row, volume_encrypt the form's choice, ha is "not is_freenas()
\* and failover_licensed()", smartd the srv_enable of the smartd service.
SavePostCalls(add, vol_encrypt, volume_encrypt, ha, smartd) ==
    (IF vol_encrypt >= 2 /\ add THEN <<Call("geli_passphrase", <<>>, "")>> ELSE <<>>)
    \o (IF volume_encrypt > 0 /\ ha THEN <<Call("sync_file_send", <<>>, "")>> ELSE <<>>)
    \o <<Call("reload", <<>>, "disk")>>
    \o (IF ~add
        THEN <<Call("start", <<>>, "ix-syslogd"), Call("restart", <<>>, "system_datasets")>>
        ELSE <<>>)
    \o <<Call("restart", <<>>, "cron")>>
    \o (IF smartd THEN <<Call("restart", <<>>, "smartd")>> ELSE <<>>)

\* The except clause (lines 306-311): what it leaves of the Volume and Scrub
\* rows.  rows and scrubrows are the tables when the exception is caught,
\* scrub tells whether the Scrub row had been created.
SaveRollbackVolumes(add, name, rows) ==
    IF ~add
    THEN [n \in DOMAIN rows \ {name} |-> rows[n]]
    ELSE rows

SaveRollbackScrubs(scrub, name, scrubrows) ==
    IF scrub THEN scrubrows \ {name} ELSE scrubrows

\* save(): in.encryption, in.init_rand, in.dedup are cleaned form fields,
\* in.ha and in.smartd the environment, in.fail the position of the call that
\* raises (0: none does).
VolumeManagerForm_save(cd, forms, rows, scrubrows, in) ==
    LET volume_name == cd.volume_name
        volume_encrypt == IF in.encryption THEN 1 ELSE 0
        add == volume_name \in DOMAIN rows
        rows1 == IF add
                 THEN rows
                 ELSE [n \in DOMAIN rows \cup {volume_name} |->
                          IF n = volume_name THEN volume_encrypt ELSE rows[n]]
        grouped == Grouped(forms, 1)
        try == SaveTryCalls(add, grouped, in.init_rand, in.dedup)
        post == SavePostCalls(add, rows1[volume_name], volume_encrypt, in.ha, in.smartd)
        plan == try \o post
        fail == IF in.fail > Len(plan) THEN 0 ELSE in.fail
        issued == IF fail = 0 THEN plan ELSE SubSeq(plan, 1, fail)
        done == IF fail = 0 THEN Len(plan) ELSE fail - 1
        Completed(op) == \E k \in 1..done : plan[k].op = op
        scrub == Completed("Scrub.create")
        scrubrows1 == IF scrub THEN scrubrows \cup {volume_name} ELSE scrubrows
        rows2 == IF Completed("geli_passphrase")
                 THEN [rows1 EXCEPT ![volume_name] = 1]
                 ELSE rows1
        caught == fail \in 1..Len(try)
    IN [add |-> add,
        calls |-> issued,
        planned |-> Len(plan),
        raised |-> fail # 0,
        caught |-> caught,
        failed |-> fail,
        volumes |-> IF caught THEN SaveRollbackVolumes(add, volume_name, rows2) ELSE rows2,
        scrubs |-> IF caught THEN SaveRollbackScrubs(scrub, volume_name, scrubrows1)
                   ELSE scrubrows1]

(***************************************************************************)
(* ZFSVolumeWizardForm                                                     *)
(***************************************************************************)
\* __init__ (lines 539-553): the choices of group_type, by the number of
\* disks submitted.
GroupTypeChoices(ndisks) ==
    {"mirror", "stripe"}
    \cup (IF ndisks >= 3 THEN {"raidz"} ELSE {})
    \cup (IF ndisks >= 4 THEN {"raidz2"} ELSE {})
    \cup (IF ndisks >= 5 THEN {"raidz3"} ELSE {})

\* clean_volume_name of the wizard (lines 607-617): the pattern and the
\* Volume rows only.
ZFSVolumeWizardForm_clean_volume_name(vname, names) ==
    IF vname # <<>> /\ ~MatchesVolumeName(vname) THEN "invalid_name"
    ELSE IF vname \in names THEN "exists"
    ELSE ""

\* The group_type field (a ChoiceField, required=False) and clean_group_type
\* (lines 619-624).
clean_group_type(group_type, ndisks) ==
    IF group_type # "" /\ group_type \notin GroupTypeChoices(ndisks) THEN "invalid_choice"
    ELSE IF ndisks > 1 /\ group_type = "" THEN "required"
    ELSE ""

\* The volume_add field (lines 525-532): there is one only when Volume rows
\* exist, and its choices are their names and ''.
WizardVolumeAdd(volume_add, names) ==
    IF names = {} THEN [error |-> "", value |-> <<>>]
    ELSE IF volume_add # <<>> /\ volume_add \notin names
    THEN [error |-> "invalid_choice", value |-> <<>>]
    ELSE [error |-> "", value |-> volume_add]

\* The reserved words clean() looks for (lines 649-662).
WizardReserved(volume_name) ==
    IF volume_name = <<"l", "o", "g">> THEN "reserved"
    ELSE IF \/ (Len(volume_name) >= 2 /\ volume_name[1] = "c" /\ volume_name[2] \in Digits)
            \/ StartsWith(volume_name, <<"m", "i", "r", "r", "o", "r">>)
            \/ StartsWith(volume_name, <<"s", "p", "a", "r", "e">>)
            \/ StartsWith(volume_name, <<"r", "a", "i", "d", "z">>)
    THEN "reserved_prefix"
    ELSE ""

\* clean() (lines 626-664).  got is volume_name as cleaned_data has it,
\* field_error the error its field has so far, volume_add and disks the
\* cleaned values of their fields, names the vol_name of the Volume rows.
ZFSVolumeWizardForm_clean(field_error, got, volume_add, disks, names) ==
    [all_error |-> IF got # <<>> /\ volume_add # <<>> THEN "both"
                   ELSE IF got = <<>> /\ volume_add = <<>> THEN "neither"
                   ELSE "",
     disks_error |-> disks = <<>> /\ (IF got # <<>> THEN got ELSE volume_add) \notin names,
     name_error |-> IF WizardReserved(IF got # <<>> THEN got ELSE volume_add) # ""
                    THEN WizardReserved(IF got # <<>> THEN got ELSE volume_add)
                    ELSE field_error,
     volume_name |-> IF WizardReserved(IF got # <<>> THEN got ELSE volume_add) # ""
                     THEN <<>>
                     ELSE got]

\* The wizard form cleaned: its fields, then clean().  The disks submitted
\* are among the choices of volume_disks; dedup is a required choice.
ZFSVolumeWizardForm_full_clean(data, names) ==
    LET name == CharField_clean(data.volume_name, 30, FALSE)
        field_error == IF name.error # "" THEN name.error
                       ELSE ZFSVolumeWizardForm_clean_volume_name(name.value, names)
        add == WizardVolumeAdd(data.volume_add, names)
        group_error == clean_group_type(data.group_type, Len(data.volume_disks))
        c == ZFSVolumeWizardForm_clean(field_error,
                                       IF field_error = "" THEN name.value ELSE <<>>,
                                       add.value, data.volume_disks, names)
    IN [name_error |-> c.name_error,
        all_error |-> c.all_error,
        disks_error |-> c.disks_error,
        group_error |-> group_error,
        add_error |-> add.error,
        dedup_error |-> data.dedup = "",
        volume_name |-> c.volume_name,
        volume_add |-> add.value,
        volume_disks |-> data.volume_disks,
        group_type |-> IF group_error = "" THEN data.group_type ELSE "",
        enc |-> data.enc,
        encini |-> data.encini,
        dedup |-> data.dedup,
        is_valid |-> /\ c.name_error = "" /\ c.all_error = "" /\ ~c.disks_error
                     /\ group_error = "" /\ add.error = "" /\ data.dedup # ""]

Group(key, type, disks) == [key |-> key, type |-> type, disks |-> disks]

\* One zpool_<disk> item of request.POST put into grouped (lines 702-712).
GroupedWith(grouped, disk, gtype) ==
    IF gtype = "none" THEN grouped
    ELSE IF \E k \in 1..Len(grouped) : grouped[k].key = gtype
    THEN [k \in 1..Len(grouped) |->
             IF grouped[k].key = gtype
             THEN Group(gtype,
                        IF gtype = "log" THEN "log mirror" ELSE grouped[k].type,
                        Append(grouped[k].disks, disk))
             ELSE grouped[k]]
    ELSE Append(grouped, Group(gtype, gtype, <<disk>>))

\* grouped (lines 699-712): 'root' first, then the groups the items of
\* request.POST name, in the order they first appear.
RECURSIVE WizardGrouped(_, _, _)
WizardGrouped(grouped, post, i) ==
    IF i > Len(post)
    THEN grouped
    ELSE WizardGrouped(GroupedWith(grouped, post[i].disk, post[i].gtype), post, i + 1)

IsAuxGroup(g) == g.key \in {"log", "cache", "spare"}

\* The calls of the try block of done() after the Volume row is looked up or
\* saved (lines 714-736), in the order they are issued.
DoneTryCalls(add, disk_list, grouped, init_rand, dedup) ==
    IF add
    THEN (IF Len(disk_list) > 0
          THEN <<Call("zfs_volume_attach_group", <<grouped[1]>>, "")>>
          ELSE <<>>)
         \o [k \in 1..Len(SelectSeq(grouped, IsAuxGroup)) |->
                Call("zfs_volume_attach_group", <<SelectSeq(grouped, IsAuxGroup)[k]>>, "")]
    ELSE <<Call("create_volume", grouped, IF init_rand THEN "init_rand" ELSE "")>>
         \o (IF dedup # "" THEN <<Call("zfs_set_option", <<>>, dedup)>> ELSE <<>>)
         \o <<Call("Scrub.create", <<>>, ""), Call("zpool_enclosure_sync", <<>>, "")>>

\* The calls after the try block (lines 746-748).
DonePostCalls ==
    <<Call("reload", <<>>, "disk"), Call("restart", <<>>, "cron")>>

\* The except clause of done() (lines 737-742) with the Volume row kept.
DoneRollbackVolumes_kept(name, rows) == rows

\* The except clause of done() (lines 737-742): volume is set by then, and
\* its row is deleted whether it was saved by this call or found.
DoneRollbackVolumes(name, rows) ==
    [n \in DOMAIN rows \ {name} |-> rows[n]]

DoneRollbackScrubs(scrub, name, scrubrows) ==
    IF scrub THEN scrubrows \ {name} ELSE scrubrows

\* done(): cd is the cleaned form, post the zpool_ items of request.POST,
\* fail the position of the call that raises (0: none does).  An exception
\* of zpool_enclosure_sync is logged and done() goes on (lines 733-736).
ZFSVolumeWizardForm_done(cd, post, rows, scrubrows, fail_at) ==
    LET volume_name == IF cd.volume_name # <<>> THEN cd.volume_name ELSE cd.volume_add
        disk_list == cd.volume_disks
        volume_encrypt == IF cd.enc THEN 1 ELSE 0
        group_type == IF Len(disk_list) < 2 THEN "stripe" ELSE cd.group_type
        add == volume_name \in DOMAIN rows
        rows1 == IF add
                 THEN rows
                 ELSE [n \in DOMAIN rows \cup {volume_name} |->
                          IF n = volume_name THEN volume_encrypt ELSE rows[n]]
        grouped == WizardGrouped(<<Group("root", group_type, disk_list)>>, post, 1)
        try == DoneTryCalls(add, disk_list, grouped, cd.encini, cd.dedup)
        plan == try \o DonePostCalls
        fail == IF fail_at > Len(plan) THEN 0 ELSE fail_at
        logged == fail # 0 /\ plan[fail].op = "zpool_enclosure_sync"
        raised == fail # 0 /\ ~logged
        issued == IF raised THEN SubSeq(plan, 1, fail) ELSE plan
        Completed(op) == \E k \in 1..Len(issued) : k # fail /\ plan[k].op = op
        scrub == Completed("Scrub.create")
        scrubrows1 == IF scrub THEN scrubrows \cup {volume_name} ELSE scrubrows
        caught == raised /\ fail <= Len(try)
    IN [add |-> add,
        calls |-> issued,
        planned |-> Len(plan),
        raised |-> raised,
        caught |-> caught,
        logged |-> logged,
        failed |-> fail,
        volumes |-> IF caught THEN DoneRollbackVolumes(volume_name, rows1) ELSE rows1,
        scrubs |-> IF caught THEN DoneRollbackScrubs(scrub, volume_name, scrubrows1)
                   ELSE scrubrows1]

(***************************************************************************)
(* ZFSDiskReplacementForm                                                  *)
(***************************************************************************)
\* The replace_disk field (lines 2147-2150, 2175): a required choice among
\* the disks no volume uses.
ReplaceDiskField(devname, choices) ==
    IF devname = "" THEN [error |-> "required", value |-> ""]
    ELSE IF devname \notin choices THEN [error |-> "invalid_choice", value |-> ""]
    ELSE [error |-> "", value |-> devname]

\* clean_replace_disk (lines 2205-2214): whether it puts the error on
\* 'force'.  clean is the set of disks disk_check_clean reports as clean.
clean_replace_disk(devname, force, clean) ==
    devname # "" /\ ~force /\ devname \notin clean

\* clean_pass2 (lines 2216-2232): the error it raises and whether it puts
\* one on 'pass'.  passphrase is "pass" as cleaned_data has it, key the
\* passphrase geli_testkey accepts.
clean_pass2(passphrase, passphrase2, key) ==
    IF passphrase # passphrase2
    THEN [error |-> "mismatch", pass_error |-> FALSE]
    ELSE [error |-> "", pass_error |-> passphrase # key]

\* The form cleaned: force, replace_disk, and pass and pass2 when the volume
\* has a passphrase (vol_encrypt == 2, lines 2166-2174).
ZFSDiskReplacementForm_full_clean(data, env) ==
    LET disk == ReplaceDiskField(data.replace_disk, env.choices)
        force_error == disk.error = "" /\ clean_replace_disk(disk.value, data.force, env.clean)
        asked == env.vol_encrypt = 2
        pass == CharField_clean(data.pass, Len(data.pass), TRUE)
        pass2 == CharField_clean(data.pass2, Len(data.pass2), TRUE)
        checked == IF asked /\ pass2.error = ""
                   THEN clean_pass2(pass.value, pass2.value, env.key)
                   ELSE [error |-> "", pass_error |-> FALSE]
    IN [force |-> data.force,
        replace_disk |-> disk.value,
        pass |-> IF asked THEN pass.value ELSE <<>>,
        disk_error |-> disk.error,
        force_error |-> force_error,
        pass_error |-> asked /\ (pass.error # "" \/ checked.pass_error),
        pass2_error |-> IF asked /\ pass2.error # "" THEN pass2.error ELSE checked.error,
        is_valid |-> /\ disk.error = ""
                     /\ ~force_error
                     /\ asked => /\ pass.error = "" /\ pass2.error = ""
                                 /\ checked.error = "" /\ ~checked.pass_error]

ReplaceCall(op, devname, force, passphrase) ==
    [op |-> op, devname |-> devname, force |-> force, passphrase |-> passphrase]

\* done() returning True whatever zfs_replace_disk returned.
ZFSDiskReplacementForm_done_sure(cd, smartd, rv, fail) ==
    [calls |-> <<ReplaceCall("zfs_replace_disk", cd.replace_disk, cd.force, cd.pass)>>
               \o (IF fail # "zfs_replace_disk" /\ smartd
                   THEN <<ReplaceCall("restart", "smartd", FALSE, <<>>)>>
                   ELSE <<>>),
     rv |-> rv,
     raised |-> fail = "zfs_replace_disk" \/ (smartd /\ fail = "restart"),
     returned |-> ~(fail = "zfs_replace_disk" \/ (smartd /\ fail = "restart"))]

\* done() (lines 2234-2257): the passphrase goes to a file handed to
\* zfs_replace_disk; rv is what zfs_replace_disk returns, smartd the
\* srv_enable of the smartd service, fail the call that raises ("": none).
\* returned is the value done() returns, FALSE also when it raises.
ZFSDiskReplacementForm_done(cd, smartd, rv, fail) ==
    [calls |-> <<ReplaceCall("zfs_replace_disk", cd.replace_disk, cd.force, cd.pass)>>
               \o (IF fail # "zfs_replace_disk" /\ rv = 0 /\ smartd
                   THEN <<ReplaceCall("restart", "smartd", FALSE, <<>>)>>
                   ELSE <<>>),
     rv |-> rv,
     raised |-> fail = "zfs_replace_disk" \/ (rv = 0 /\ smartd /\ fail = "restart"),
     returned |-> /\ rv = 0
                  /\ ~(fail = "zfs_replace_disk" \/ (smartd /\ fail = "restart"))]

(***************************************************************************)
(* CronJobService.validate_data                                            *)
(***************************************************************************)
SplitAt(s, k) == <<SubSeq(s, 1, k - 1), SubSeq(s, k + 1, Len(s))>>

\* str.split(','): the pieces between the commas, in order.
RECURSIVE Split(_)
Split(s) ==
    IF \A i \in 1..Len(s) : s[i] # ","
    THEN <<s>>
    ELSE <<SplitAt(s, CHOOSE i \in 1..Len(s) :
                         s[i] = "," /\ \A j \in 1..(i - 1) : s[j] # ",")[1]>>
         \o Split(SplitAt(s, CHOOSE i \in 1..Len(s) :
                                s[i] = "," /\ \A j \in 1..(i - 1) : s[j] # ",")[2])

\* str.strip() of blanks.
RECURSIVE Strip(_)
Strip(s) ==
    IF s # <<>> /\ s[1] = " " THEN Strip(Tail(s))
    ELSE IF s # <<>> /\ s[Len(s)] = " " THEN Strip(SubSeq(s, 1, Len(s) - 1))
    ELSE s

DigitValue(c) ==
    CASE c = "0" -> 0 [] c = "1" -> 1 [] c = "2" -> 2 [] c = "3" -> 3
      [] c = "4" -> 4 [] c = "5" -> 5 [] c = "6" -> 6 [] c = "7" -> 7
      [] c = "8" -> 8 [] c = "9" -> 9

RECURSIVE DigitsValue(_, _)
DigitsValue(s, acc) ==
    IF s = <<>> THEN acc
    ELSE IF s[1] = "_" THEN DigitsValue(Tail(s), acc)
    ELSE DigitsValue(Tail(s), 10 * acc + DigitValue(s[1]))

\* The digits of an integer literal: digits, grouped by single underscores.
IsDigits(body) ==
    /\ body # <<>>
    /\ \A i \in 1..Len(body) : body[i] \in Digits \cup {"_"}
    /\ body[1] # "_"
    /\ body[Len(body)] # "_"
    /\ \A i \in 1..(Len(body) - 1) : ~(body[i] = "_" /\ body[i + 1] = "_")

IntOfDigits(body, negative) ==
    IF IsDigits(body)
    THEN [ok |-> TRUE,
          value |-> IF negative THEN 0 - DigitsValue(body, 0) ELSE DigitsValue(body, 0)]
    ELSE [ok |-> FALSE, value |-> 0]

IntOfStripped(t) ==
    IF t # <<>> /\ t[1] \in {"+", "-"}
    THEN IntOfDigits(Tail(t), t[1] = "-")
    ELSE IntOfDigits(t, FALSE)

\* int(text): blanks around the text are ignored, a sign may lead, the digits
\* may be grouped by single underscores; anything else is a ValueError
\* (ok = FALSE).
int(text) == IntOfStripped(Strip(text))

\* dict.get: an absent key reads as None, which is the empty tuple here
\* (both are false and differ from '*').
Get(data, key) == IF key \in DOMAIN data THEN data[key] ELSE <<>>

VError(attribute, message) == [attribute |-> attribute, message |-> message]

\* The list comprehension of lines 19 and 35.
Ints(parts) == [i \in 1..Len(parts) |-> int(parts[i])]

\* The list check with the upper end of the range left out.
CheckInts_short(parsed, hi, attribute, invalid, range) ==
    IF \E i \in 1..Len(parsed) : ~parsed[i].ok
    THEN <<VError(attribute, invalid)>>
    ELSE IF Cardinality({i \in 1..Len(parsed) : parsed[i].value \notin 1..(hi - 1)}) > 0
    THEN <<VError(attribute, range)>>
    ELSE <<>>

\* Lines 18-30 and 34-46: a ValueError of int() gives the first message, a
\* value outside range(1, hi + 1) the second.
CheckInts(parsed, hi, attribute, invalid, range) ==
    IF \E i \in 1..Len(parsed) : ~parsed[i].ok
    THEN <<VError(attribute, invalid)>>
    ELSE IF Cardinality({i \in 1..Len(parsed) : parsed[i].value \notin 1..hi}) > 0
    THEN <<VError(attribute, range)>>
    ELSE <<>>

\* Lines 16-30 and 32-46: the check of one list field against 1..hi.
validate_list(value, hi, attribute, invalid, range) ==
    IF value # <<>> /\ value # <<"*">>
    THEN CheckInts(Ints(Split(value)), hi, attribute, invalid, range)
    ELSE <<>>

\* The check of the user with 'if' in place of 'elif': a user with a space
\* is looked up as well.
validate_user_both(user, found) ==
    IF user # <<>>
    THEN [verrors |->
             (IF \E i \in 1..Len(user) : user[i] = " "
              THEN <<VError("user", "Usernames cannot have spaces")>>
              ELSE <<>>)
             \o (IF ~(user \in found)
                 THEN <<VError("user", "Specified user does not exist")>>
                 ELSE <<>>),
          lookups |-> <<user>>]
    ELSE [verrors |-> <<>>, lookups |-> <<>>]

\* Lines 48-67: the check of the user; lookups are the calls of
\* notifier.get_user_object, found the users for which it returns an object.
validate_user(user, found) ==
    IF user # <<>>
    THEN IF \E i \in 1..Len(user) : user[i] = " "
         THEN [verrors |-> <<VError("user", "Usernames cannot have spaces")>>,
               lookups |-> <<>>]
         ELSE IF ~(user \in found)
         THEN [verrors |-> <<VError("user", "Specified user does not exist")>>,
               lookups |-> <<user>>]
         ELSE [verrors |-> <<>>, lookups |-> <<user>>]
    ELSE [verrors |-> <<>>, lookups |-> <<>>]

Validation(weekday, month, u, data) ==
    [verrors |-> weekday \o month \o u.verrors, lookups |-> u.lookups, data |-> data]

validate_data(data, found) ==
    Validation(validate_list(Get(data, "dayweek"), 7, "weekday",
                             "Please specify valid week days",
                             "The week days should be in range of 1-7 inclusive"),
               validate_list(Get(data, "month"), 12, "month",
                             "Please specify valid months",
                             "The months should be in range of 1-12 inclusive"),
               validate_user(Get(data, "user"), found),
               data)

(***************************************************************************)
(* CronJobService.do_create, do_update, do_delete                          *)
(*                                                                         *)
(* A job is a function from field names to values; its id is kept beside   *)
(* it (no patch carries an id, so the id never differs between the stored  *)
(* and the merged job).  jobs is the tasks.cronjob table, id -> job.  fail *)
(* is the position, among the middleware calls issued after validation, of *)
(* the call that raises (0: none does).                                    *)
(***************************************************************************)
NoJob == [f \in {} |-> <<>>]

MCall(method, id, data) == [method |-> method, id |-> id, data |-> data]

Lookups(lookups) ==
    [k \in 1..Len(lookups) |->
        MCall("notifier.get_user_object", 0, [user |-> lookups[k]])]

Restart == MCall("service.restart", 0, [service |-> <<"c", "r", "o", "n">>])

\* The id datastore.insert gives the new row.
NewId(jobs) ==
    IF DOMAIN jobs = {} THEN 1
    ELSE 1 + CHOOSE m \in DOMAIN jobs : \A n \in DOMAIN jobs : n <= m

\* The table after datastore.insert of data under id.
Inserted(jobs, id, data) ==
    [n \in DOMAIN jobs \cup {id} |-> IF n = id THEN data ELSE jobs[n]]

Response(raised, verrors, calls, jobs, id, value) ==
    [raised |-> raised, verrors |-> verrors, calls |-> calls,
     jobs |-> jobs, id |-> id, value |-> value]

\* do_create that inserts before it looks at the validation errors.
Create_unchecked(v, jobs, id, fail) ==
    IF v.verrors # <<>>
    THEN Response(TRUE, v.verrors,
                  Lookups(v.lookups) \o <<MCall("datastore.insert", 0, v.data)>>,
                  Inserted(jobs, id, v.data), 0, NoJob)
    ELSE IF fail = 1
    THEN Response(TRUE, <<>>,
                  Lookups(v.lookups) \o <<MCall("datastore.insert", 0, v.data)>>,
                  jobs, 0, NoJob)
    ELSE Response(fail = 2, <<>>,
                  Lookups(v.lookups) \o <<MCall("datastore.insert", 0, v.data), Restart>>,
                  Inserted(jobs, id, v.data),
                  IF fail = 2 THEN 0 ELSE id,
                  IF fail = 2 THEN NoJob ELSE v.data)

\* Lines 90-106, v being what validate_data returned and id the id the
\* insert gives: raise the errors, or insert, restart cron and return.
Create(v, jobs, id, fail) ==
    IF v.verrors # <<>>
    THEN Response(TRUE, v.verrors, Lookups(v.lookups), jobs, 0, NoJob)
    ELSE IF fail = 1
    THEN Response(TRUE, <<>>,
                  Lookups(v.lookups) \o <<MCall("datastore.insert", 0, v.data)>>,
                  jobs, 0, NoJob)
    ELSE Response(fail = 2, <<>>,
                  Lookups(v.lookups) \o <<MCall("datastore.insert", 0, v.data), Restart>>,
                  Inserted(jobs, id, v.data),
                  IF fail = 2 THEN 0 ELSE id,
                  IF fail = 2 THEN NoJob ELSE v.data)

do_create(data, jobs, found, fail) ==
    Create(validate_data(data, found), jobs, NewId(jobs), fail)

\* dict.update the wrong way round: the stored values win.
Merge_stored(job, patch) ==
    [f \in DOMAIN job \cup DOMAIN patch |->
        IF f \in DOMAIN job THEN job[f] ELSE patch[f]]

\* dict.update: the keys of the patch replace or extend those of the job.
Merge(job, patch) ==
    [f \in DOMAIN job \cup DOMAIN patch |->
        IF f \in DOMAIN patch THEN patch[f] ELSE job[f]]

\* set(a.items()) ^ set(b.items()): two items for a key whose values differ,
\* one for a key only one of them has.
ItemsDifference(a, b) ==
    {<<f, 1>> : f \in {g \in DOMAIN a : g \notin DOMAIN b \/ a[g] # b[g]}}
    \cup {<<f, 2>> : f \in {g \in DOMAIN b : g \notin DOMAIN a \/ a[g] # b[g]}}

Query(id) == MCall("datastore.query", id, NoJob)

\* Lines 118-137, v being what validate_data returned for the merged job:
\* raise the errors, or update and restart if an item differs, and return
\* the row as queried again.
Update(id, v, jobs, fail) ==
    IF v.verrors # <<>>
    THEN Response(TRUE, v.verrors, <<Query(id)>> \o Lookups(v.lookups), jobs, 0, NoJob)
    ELSE IF Cardinality(ItemsDifference(v.data, jobs[id])) > 0
    THEN IF fail = 1
         THEN Response(TRUE, <<>>,
                       <<Query(id)>> \o Lookups(v.lookups)
                          \o <<MCall("datastore.update", id, v.data)>>,
                       jobs, 0, NoJob)
         ELSE IF fail = 2
         THEN Response(TRUE, <<>>,
                       <<Query(id)>> \o Lookups(v.lookups)
                          \o <<MCall("datastore.update", id, v.data), Restart>>,
                       [jobs EXCEPT ![id] = v.data], 0, NoJob)
         ELSE Response(FALSE, <<>>,
                       <<Query(id)>> \o Lookups(v.lookups)
                          \o <<MCall("datastore.update", id, v.data), Restart, Query(id)>>,
                       [jobs EXCEPT ![id] = v.data], id, v.data)
    ELSE Response(FALSE, <<>>,
                  <<Query(id)>> \o Lookups(v.lookups) \o <<Query(id)>>,
                  jobs, id, jobs[id])

\* The query of line 113 raises when no row has the id.
do_update(id, patch, jobs, found, fail) ==
    IF id \notin DOMAIN jobs
    THEN Response(TRUE, <<>>, <<Query(id)>>, jobs, 0, NoJob)
    ELSE Update(id, validate_data(Merge(jobs[id], patch), found), jobs, fail)

\* do_delete that restarts cron before it deletes.
do_delete_early(id, jobs, fail) ==
    IF fail = 1
    THEN Response(TRUE, <<>>, <<Restart>>, jobs, 0, NoJob)
    ELSE Response(fail = 2, <<>>,
                  <<Restart, MCall("datastore.delete", id, NoJob)>>,
                  IF fail = 2 THEN jobs ELSE [n \in DOMAIN jobs \ {id} |-> jobs[n]],
                  IF fail = 2 THEN 0 ELSE id, NoJob)

\* datastore.delete of a row that does not exist either raises (fail = 1) or
\* deletes nothing.
do_delete(id, jobs, fail) ==
    IF fail = 1
    THEN Response(TRUE, <<>>, <<MCall("datastore.delete", id, NoJob)>>, jobs, 0, NoJob)
    ELSE Response(fail = 2, <<>>,
                  <<MCall("datastore.delete", id, NoJob), Restart>>,
                  [n \in DOMAIN jobs \ {id} |-> jobs[n]],
                  IF fail = 2 THEN 0 ELSE id, NoJob)

(***************************************************************************)
(* _clean_zfssize_fields                                                   *)
(***************************************************************************)
SizeFields == {"quota", "refquota", "reservation", "refreservation"}

\* str.replace(' ', '').
RECURSIVE WithoutBlanks(_)
WithoutBlanks(s) ==
    IF s = <<>> THEN <<>>
    ELSE IF s[1] = " " THEN WithoutBlanks(Tail(s))
    ELSE <<s[1]>> \o WithoutBlanks(Tail(s))

AllDigits(s) == s # <<>> /\ \A i \in 1..Len(s) : s[i] \in Digits

\* \d+(?:\.\d+)?
IsSizeNumber(s) ==
    \/ AllDigits(s)
    \/ \E k \in 1..Len(s) :
          /\ s[k] = "."
          /\ AllDigits(SubSeq(s, 1, k - 1))
          /\ AllDigits(SubSeq(s, k + 1, Len(s)))

\* ([BKMGTP](?:iB)?)? under re.I
IsSizeSuffix(s) ==
    \/ s = <<>>
    \/ /\ Len(s) \in {1, 3}
       /\ s[1] \in {"B", "K", "M", "G", "T", "P", "b", "k", "m", "g", "t", "p"}
       /\ Len(s) = 3 => s[2] \in {"i", "I"} /\ s[3] \in {"b", "B"}

\* The split of a matching value into number and suffix: the number is the
\* longest prefix without a letter.
SizeSplit(s) ==
    CHOOSE k \in 0..Len(s) :
        /\ \A i \in 1..k : s[i] \in Digits \cup {"."}
        /\ k < Len(s) => s[k + 1] \notin Digits \cup {"."}

\* r.match(value.replace(' ', '')) of lines 145-150.
MatchesSize(value) ==
    LET s == BeforeDollar(WithoutBlanks(value))
    IN /\ IsSizeNumber(SubSeq(s, 1, SizeSplit(s)))
       /\ IsSizeSuffix(SubSeq(s, SizeSplit(s) + 1, Len(s)))

\* The value lines 155-158 leave in cleaned_data: an IEC suffix is cut to
\* its first letter.
SizeValue(value) ==
    LET s == BeforeDollar(WithoutBlanks(value))
        k == SizeSplit(s)
    IN IF Len(s) - k = 3 THEN SubSeq(s, 1, k + 1) ELSE value

\* _clean_zfssize_fields: sizes gives each size field its cleaned value, the
\* empty string for a field that is absent.  A value that does not match is
\* an error on its field and leaves cleaned_data.
_clean_zfssize_fields(sizes) ==
    [errors |-> {f \in DOMAIN sizes : ~MatchesSize(sizes[f])},
     cdata |-> [f \in {g \in DOMAIN sizes : MatchesSize(sizes[g])} |-> SizeValue(sizes[f])]]

(***************************************************************************)
(* ZFSDatasetCommonForm and ZFSDatasetCreateForm                           *)
(***************************************************************************)
Alphanumerics == LowerLetters \cup UpperLetters \cup Digits

\* re.search(r'^[a-zA-Z0-9][a-zA-Z0-9_\-:. ]*$', name)
MatchesDatasetName(name) ==
    /\ Len(BeforeDollar(name)) > 0
    /\ name[1] \in Alphanumerics
    /\ \A i \in 2..Len(BeforeDollar(name)) :
          name[i] \in Alphanumerics \cup {"_", "-", ":", ".", " "}

\* clean_dataset_name: "" when the name is returned, else the error raised.
clean_dataset_name(name) ==
    IF ~MatchesDatasetName(name) THEN "invalid_name" ELSE ""

\* str(None), which "%s" % None gives.
NoneText == <<"N", "o", "n", "e">>

Slash == <<"/">>

Mnt == <<"/", "m", "n", "t", "/">>

\* "%s/%s" % (fs, name) and f'/mnt/{full_dataset_name}'.
FullDatasetName(fs, name) == fs \o Slash \o name

MountPath(full_dataset_name) == Mnt \o full_dataset_name

FormErrors(name, all, sizes, raised) ==
    [dataset_name |-> name, all |-> all, sizes |-> sizes, raised |-> raised]

\* clean() that does not ask zfs for a dataset of that name.
ZFSDatasetCreateForm_clean_pathonly(fs, name_error, name, size_errors, datasets, paths) ==
    IF MountPath(FullDatasetName(fs, IF name_error = "" THEN name ELSE NoneText)) \in paths
    THEN FormErrors(name_error, "path_exists", size_errors, FALSE)
    ELSE FormErrors(name_error, "", size_errors, FALSE)

\* ZFSDatasetCreateForm.clean (lines 1395-1412) after the fields are
\* cleaned: name_error is the error of dataset_name ("" when the field is in
\* cleaned_data, with value name), size_errors the fields
\* _clean_zfssize_fields refused, datasets what zfs.list_datasets finds and
\* paths the paths that exist.  "del cleaned_data['dataset_name']" raises
\* KeyError when the field is absent (raised = TRUE).
ZFSDatasetCreateForm_clean(fs, name_error, name, size_errors, datasets, paths) ==
    IF MountPath(FullDatasetName(fs, IF name_error = "" THEN name ELSE NoneText)) \in paths
    THEN FormErrors(name_error, "path_exists", size_errors, FALSE)
    ELSE IF FullDatasetName(fs, IF name_error = "" THEN name ELSE NoneText) \in datasets
    THEN IF name_error = ""
         THEN FormErrors("dataset_exists", "", size_errors, FALSE)
         ELSE FormErrors(name_error, "", size_errors, TRUE)
    ELSE FormErrors(name_error, "", size_errors, FALSE)

\* The error of the dataset_name field after the field and clean_dataset_name.
DatasetNameError(field) ==
    IF field.error # "" THEN field.error ELSE clean_dataset_name(field.value)

\* The form bound to data (dataset_name and the four sizes) for parent fs,
\* cleaned: the fields, then clean().
ZFSDatasetCreateForm_full_clean(fs, data, datasets, paths) ==
    [errors |-> ZFSDatasetCreateForm_clean(
                    fs,
                    DatasetNameError(CharField_clean(data.dataset_name, 128, TRUE)),
                    CharField_clean(data.dataset_name, 128, TRUE).value,
                    _clean_zfssize_fields(data.sizes).errors,
                    datasets, paths),
     dataset_name |-> CharField_clean(data.dataset_name, 128, TRUE).value,
     sizes |-> _clean_zfssize_fields(data.sizes).cdata]

DatasetFormIsValid(c) ==
    /\ ~c.errors.raised
    /\ c.errors.dataset_name = ""
    /\ c.errors.all = ""
    /\ c.errors.sizes = {}

\* clean_data_to_props (lines 1335-1342) for the size fields: '0' is 'none'.
SizeProps(sizes) ==
    [f \in DOMAIN sizes |-> IF sizes[f] = <<"0">> THEN <<"n", "o", "n", "e">> ELSE sizes[f]]

NCall(op, path, arg) == [op |-> op, path |-> path, arg |-> arg]

\* ZFSDatasetCreateForm.save (lines 1414-1425): err is what
\* create_zfs_dataset returns first.
ZFSDatasetCreateForm_save(fs, c, share_type, err) ==
    IF err
    THEN [calls |-> <<NCall("create_zfs_dataset", FullDatasetName(fs, c.dataset_name),
                            SizeProps(c.sizes))>>,
          value |-> FALSE, all_error |-> TRUE]
    ELSE [calls |-> <<NCall("create_zfs_dataset", FullDatasetName(fs, c.dataset_name),
                            SizeProps(c.sizes)),
                      NCall("change_dataset_share_type",
                            FullDatasetName(fs, c.dataset_name), share_type)>>,
          value |-> TRUE, all_error |-> FALSE]

(***************************************************************************)
(* MountPointAccessForm                                                    *)
(***************************************************************************)
AclChoices == {"unix", "mac", "windows"}

\* The fields cleaned in the order they are declared (lines 1832-1864):
\* the three 'apply' flags and mp_recursive are optional booleans, mp_user
\* and mp_group are required, mp_mode is optional and mp_acl is a required
\* choice.  errors are the fields refused; a refused field is absent from
\* cleaned_data (.get gives None, here the empty value).
MountPointAccessForm_clean_fields(data) ==
    [mp_user_en |-> data.mp_user_en,
     mp_user |-> strip(data.mp_user),
     mp_group_en |-> data.mp_group_en,
     mp_group |-> strip(data.mp_group),
     mp_mode_en |-> data.mp_mode_en,
     mp_mode |-> data.mp_mode,
     mp_acl |-> IF data.mp_acl \in AclChoices THEN data.mp_acl ELSE "",
     mp_recursive |-> data.mp_recursive,
     errors |-> {f \in {"mp_user", "mp_group"} : strip(data[f]) = <<>>}
                \cup (IF data.mp_acl \in AclChoices THEN {} ELSE {"mp_acl"})]

\* MountPointAccessForm.clean (lines 1891-1900).
MountPointAccessForm_clean(cd) ==
    IF (cd.mp_acl = "unix" \/ cd.mp_acl = "mac") /\ cd.mp_mode = <<>>
    THEN [cd EXCEPT !.errors = @ \cup {"mp_mode"}]
    ELSE cd

MountPointAccessForm_full_clean(data) ==
    MountPointAccessForm_clean(MountPointAccessForm_clean_fields(data))

\* str(cleaned_data['mp_mode']): the mode itself, or the text of the empty
\* value the field gives (empty_text: '' or 'None').
ModeText(mode, empty_text) == IF mode = <<>> THEN empty_text ELSE mode

\* commit() that passes the owner whether or not mp_user_en is set.
MountPointAccessForm_commit_owner(cd, path, empty_text) ==
    [op |-> "mp_change_permission",
     path |-> path,
     recursive |-> cd.mp_recursive,
     acl |-> cd.mp_acl,
     kwargs |-> [k \in (IF cd.mp_group_en THEN {"group"} ELSE {})
                       \cup (IF cd.mp_mode_en THEN {"mode"} ELSE {})
                       \cup {"user"} |->
                    CASE k = "group" -> cd.mp_group
                      [] k = "mode" -> ModeText(cd.mp_mode, empty_text)
                      [] k = "user" -> cd.mp_user]]

\* MountPointAccessForm.commit (lines 1902-1920): the call of
\* notifier().mp_change_permission, kwargs holding the keyword arguments
\* that are passed only when their flag is set.
MountPointAccessForm_commit(cd, path, empty_text) ==
    [op |-> "mp_change_permission",
     path |-> path,
     recursive |-> cd.mp_recursive,
     acl |-> cd.mp_acl,
     kwargs |-> [k \in (IF cd.mp_group_en THEN {"group"} ELSE {})
                       \cup (IF cd.mp_mode_en THEN {"mode"} ELSE {})
                       \cup (IF cd.mp_user_en THEN {"user"} ELSE {}) |->
                    CASE k = "group" -> cd.mp_group
                      [] k = "mode" -> ModeText(cd.mp_mode, empty_text)
                      [] k = "user" -> cd.mp_user]]

(***************************************************************************)
(* The services and directory services behind the REST API                 *)
(***************************************************************************)
\* srv_state of a service that has been started or stopped.
ServiceState(srv_enable) == IF srv_enable THEN "RUNNING" ELSE "STOPPED"

\* A request served: enable is the flag that was PUT or that a GET returns,
\* srv_state what a GET of a service returns beside it.
ApiReply(method, resource, enable, srv_state, status) ==
    [method |-> method, resource |-> resource, enable |-> enable,
     srv_state |-> srv_state, status |-> status]

\* A PUT of srv_enable that stores the flag without starting or stopping
\* the service.
PutService_flagonly(srv, srv_enable, ok) ==
    IF ok THEN [srv EXCEPT !.srv_enable = srv_enable] ELSE srv

\* PUT /services/services/cifs/ {"srv_enable": ...}: a PUT that succeeds
\* (status 200) stores the flag and starts or stops the service; one that
\* fails leaves the service as it was.
PutService(srv, srv_enable, ok) ==
    IF ok
    THEN [srv_enable |-> srv_enable, srv_state |-> ServiceState(srv_enable)]
    ELSE srv

\* A PUT of a directory service that answers 200 without storing the flag.
PutDirectoryService_dropped(ds, name, enable, ok) == ds

\* PUT /directoryservice/<name>/1/ {"<name>_enable": ...}: a PUT that
\* succeeds stores the flag.
PutDirectoryService(ds, name, enable, ok) ==
    IF ok THEN [ds EXCEPT ![name] = enable] ELSE ds

\* What a successful PUT of a directory service leaves of the SMB service:
\* disabling Active Directory stops it; enabling Active Directory starts it
\* or leaves it alone (started); LDAP leaves it alone.
SmbAfterDirectoryService(srv, name, enable, ok, started) ==
    IF ok /\ name = "activedirectory"
    THEN IF ~enable THEN [srv EXCEPT !.srv_state = "STOPPED"]
         ELSE IF started THEN [srv EXCEPT !.srv_state = "RUNNING"]
         ELSE srv
    ELSE srv

\* What a create_zfs_dataset that reports no error leaves: the dataset, and
\* its mount point under /mnt.
create_zfs_dataset(path, datasets_, paths_) ==
    [datasets |-> datasets_ \cup {path}, paths |-> paths_ \cup {MountPath(path)}]

\* What destroying a dataset leaves: neither the dataset nor its mount point.
destroy_zfs_dataset(path, datasets_, paths_) ==
    [datasets |-> datasets_ \ {path}, paths |-> paths_ \ {MountPath(path)}]

NoFormErrors == FormErrors("", "", {}, FALSE)

DatasetReply(op, status, errors, calls, after) ==
    [op |-> op, status |-> status, errors |-> errors, calls |-> calls,
     datasets |-> after.datasets, paths |-> after.paths]

\* POST /storage/volume/<fs>/datasets/: the form c is the request's data
\* cleaned; a valid form is saved.  An exception of clean() is the outcome
\* "raised", a form with errors "rejected", a save that returns False
\* "failed" and one that returns True "created" (status 201).
DatasetPost(fs, c, saved_, datasets_, paths_) ==
    IF c.errors.raised
    THEN DatasetReply("create", "raised", c.errors, <<>>,
                      [datasets |-> datasets_, paths |-> paths_])
    ELSE IF ~DatasetFormIsValid(c)
    THEN DatasetReply("create", "rejected", c.errors, <<>>,
                      [datasets |-> datasets_, paths |-> paths_])
    ELSE IF ~saved_.value
    THEN DatasetReply("create", "failed", c.errors, saved_.calls,
                      [datasets |-> datasets_, paths |-> paths_])
    ELSE DatasetReply("create", "created", c.errors, saved_.calls,
                      create_zfs_dataset(FullDatasetName(fs, c.dataset_name),
                                         datasets_, paths_))

\* DELETE /storage/volume/1/datasets/<name>/: a dataset that exists is
\* destroyed (status 204), one that does not is "missing".
DatasetDelete(fs, name, datasets_, paths_) ==
    IF FullDatasetName(fs, name) \in datasets_
    THEN DatasetReply("destroy", "destroyed", NoFormErrors, <<>>,
                      destroy_zfs_dataset(FullDatasetName(fs, name), datasets_, paths_))
    ELSE DatasetReply("destroy", "missing", NoFormErrors, <<>>,
                      [datasets |-> datasets_, paths |-> paths_])

(***************************************************************************)
(* Inputs                                                                  *)
(***************************************************************************)
Max(a, b) == IF a >= b THEN a ELSE b

Tank == <<"t", "a", "n", "k">>
New == <<"n", "e", "w">>

\* The vdev types the volume manager offers for a row.
RowTypes == DataTypes \cup {"cache", "log", "spare"}

\* Disk counts around the smallest count clean_disks accepts for the type.
DiskCounts(t) == Max(0, MinDisks(t) - 1)..(Max(MinDisks(t), 1) + Slack)

BlankRow == [vdevtype |-> "", disks |-> <<>>]

RowInputs ==
    {BlankRow} \cup
    UNION {{[vdevtype |-> t, disks |-> DiskList(n)] : n \in DiskCounts(t)} : t \in RowTypes}

Layouts == UNION {[1..n -> RowInputs] : n \in 0..MaxRows}

Vdev(type, ndisks) == [type |-> type, ndisks |-> ndisks]

NoVolumes == [n \in {} |-> 0]

\* The Volume rows (vol_name -> vol_encrypt) and the data vdevs of pool tank.
Fresh == [volumes |-> NoVolumes, zpool |-> <<Vdev("mirror", 2)>>]

Mirrored == [volumes |-> [n \in {Tank} |-> 0], zpool |-> <<Vdev("mirror", 2)>>]

Encrypted ==
    [volumes |-> [n \in {Tank} |-> 2], zpool |-> <<Vdev("raidz", 3), Vdev("raidz", 3)>>]

Uneven ==
    [volumes |-> [n \in {Tank} |-> 0], zpool |-> <<Vdev("mirror", 2), Vdev("mirror", 3)>>]

Scenario(env, volume_name, volume_add) ==
    [env |-> env, volume_name |-> volume_name, volume_add |-> volume_add]

\* A new volume; an existing name; no name at all; pool tank extended; pool
\* tank named in volume_add without a Volume row; both fields filled in.
Scenarios ==
    {Scenario(Fresh, New, <<>>),
     Scenario(Mirrored, Tank, <<>>),
     Scenario(Mirrored, <<>>, <<>>),
     Scenario(Mirrored, <<>>, Tank),
     Scenario(Encrypted, <<>>, Tank),
     Scenario(Uneven, <<>>, Tank),
     Scenario(Fresh, <<>>, Tank),
     Scenario(Mirrored, New, Tank)}

\* The zpool_<disk> items the wizard is posted with: none, a log disk, two
\* log disks around a disk left out, a cache and a spare disk.
PostItem(disk, gtype) == [disk |-> disk, gtype |-> gtype]

WizardPosts ==
    {<<>>,
     <<PostItem("x1", "log")>>,
     <<PostItem("x1", "log"), PostItem("x2", "none"), PostItem("x3", "log")>>,
     <<PostItem("x1", "cache"), PostItem("x2", "spare")>>}

\* enc, encini and dedup as submitted; dedup '' is no choice at all.
WizardOptions ==
    {[enc |-> FALSE, encini |-> FALSE, dedup |-> "off"],
     [enc |-> TRUE, encini |-> TRUE, dedup |-> "on"],
     [enc |-> FALSE, encini |-> FALSE, dedup |-> ""]}

WizardNames == {<<>>, New, Tank, <<"l", "o", "g">>, <<"n", "e", "w", "\n">>}

NoWizard ==
    [volume_name |-> <<>>, volume_add |-> <<>>, volume_disks |-> <<>>,
     group_type |-> "", enc |-> FALSE, encini |-> FALSE, dedup |-> "", post |-> <<>>]

\* The disks no volume uses, and the sets of them disk_check_clean may
\* report as clean.
FreeDisks == {"da1", "da2"}

Passphrases == {<<>>, <<"p">>, <<"q">>}

NoReplacement ==
    [replace_disk |-> "", force |-> FALSE, pass |-> <<>>, pass2 |-> <<>>,
     choices |-> {}, clean |-> {}, vol_encrypt |-> 0, key |-> <<>>, smartd |-> FALSE]

\* The characters volume names are drawn from: of every class the pattern
\* tells apart, and whitespace.
NameAlphabet == {"a", "Z", "1", "_", "!", " ", "\n"}

\* What the names begin with: nothing, the reserved word, the reserved
\* prefixes (one of them capitalised), and the name of the volume that exists.
NamePrefixes ==
    {<<>>, <<"l", "o", "g">>, <<"c">>, <<"m", "i", "r", "r", "o", "r">>,
     <<"s", "p", "a", "r", "e">>, <<"r", "a", "i", "d", "z">>,
     <<"M", "i", "r", "r", "o", "r">>, Tank}

Flags(encryption, init_rand, dedup, ha, smartd) ==
    [encryption |-> encryption, init_rand |-> init_rand, dedup |-> dedup,
     ha |-> ha, smartd |-> smartd]

WithFail(flags, fail) ==
    [encryption |-> flags.encryption, init_rand |-> flags.init_rand,
     dedup |-> flags.dedup, ha |-> flags.ha, smartd |-> flags.smartd,
     fail |-> fail]

NoFlags == Flags(FALSE, FALSE, "", FALSE, FALSE)

AllFlags == Flags(TRUE, TRUE, "on", TRUE, TRUE)

\* The form fields and the environment save() reads, and the call that
\* raises: any call may raise with no or every option set, and each option is
\* tried alone when no call raises.
SaveInputs(planned) ==
    {WithFail(f, k) : f \in {NoFlags, AllFlags}, k \in 0..planned}
    \cup {WithFail(f, 0) : f \in {Flags(TRUE, FALSE, "", FALSE, FALSE),
                                  Flags(FALSE, TRUE, "", FALSE, FALSE),
                                  Flags(FALSE, FALSE, "on", FALSE, FALSE),
                                  Flags(TRUE, FALSE, "", TRUE, FALSE),
                                  Flags(FALSE, FALSE, "", FALSE, TRUE)}}

NoFailure == WithFail(NoFlags, 0)

FieldAlphabet == {"0", "1", "2", "3", "7", "8", ",", "*", "a", "-", " "}

FieldProbes == {<<>>, <<"*">>, <<"1">>, <<"1", "3">>, <<"a">>}

Root == <<"r", "o", "o", "t">>
Bob == <<"b", "o", "b">>
Spaced == <<"j", " ", "d">>

UserInputs == {<<>>, Root, Bob, Spaced}

FoundUsers == {{}, {Root}, {Root, Bob, Spaced}}

Job(command, dayweek, month, user) ==
    [command |-> command, dayweek |-> dayweek, month |-> month, user |-> user]

JobTables ==
    {NoJob,
     [n \in {1, 2} |->
         IF n = 1 THEN Job(<<"c">>, <<"*">>, <<"1">>, Root)
         ELSE Job(<<"d">>, <<"1", ",", "3">>, <<"*">>, Bob)]}

\* Jobs whose dayweek or month is the string text, beside a sample of the
\* other field.
ListData(text) ==
    {Job(<<"c">>, text, m, Root) : m \in {<<>>, <<"1">>, <<"1", "3">>}}
    \cup {Job(<<"c">>, d, text, Root) : d \in {<<>>, <<"1">>, <<"8">>}}

\* Jobs of every user, with and without the optional fields.
CreateData ==
    {Job(<<"c">>, d, m, u) : d \in FieldProbes, m \in FieldProbes, u \in UserInputs}
    \cup {[command |-> <<"c">>, user |-> u] : u \in UserInputs}

PatchValues(f) == IF f = "user" THEN UserInputs ELSE FieldProbes

Patches ==
    UNION {{p \in [S -> FieldProbes \cup UserInputs] : \A f \in S : p[f] \in PatchValues(f)} :
              S \in SUBSET {"dayweek", "month", "user"}}

CreateRequest(d) == [op |-> "create", id |-> 0, data |-> d]

Requests ==
    {CreateRequest(d) : d \in CreateData}
    \cup {[op |-> "update", id |-> i, data |-> p] : i \in {1, 2}, p \in Patches}
    \cup {[op |-> "delete", id |-> i, data |-> NoJob] : i \in {1, 2}}

\* The characters dataset names are drawn from: of every class the pattern
\* tells apart, and whitespace.
DatasetAlphabet == {"a", "Z", "0", "-", ":", " ", "/", "\n"}

Smb == <<"s", "m", "b", "-", "b", "s", "d">>

\* The names a run of several requests is about: the name of the tests, a
\* name the pattern refuses and the name str(None).
DatasetNames == {Smb, <<"-", "a">>, NoneText}

Sizes(quota, refquota) ==
    [f \in SizeFields |->
        IF f = "quota" THEN quota ELSE IF f = "refquota" THEN refquota ELSE <<"0">>]

\* The four sizes as the form's initial values, with IEC sizes, and with a
\* size that is none beside one left empty.
SizeInputs ==
    {Sizes(<<"0">>, <<"0">>),
     Sizes(<<"1", "0", " ", "G", "i", "B">>, <<"1", ".", "5", "g">>),
     Sizes(<<"1", "G", "i">>, <<>>)}

DatasetData(name, sizes) == [dataset_name |-> name, sizes |-> sizes]

Wheel == <<"w", "h", "e", "e", "l">>

\* The data of a permission change: every permission type, one that is no
\* choice and none at all; a mode, or none; owner and group, or none.
AccessInputs ==
    [mp_user_en : BOOLEAN, mp_user : {<<>>, Root},
     mp_group_en : BOOLEAN, mp_group : {<<>>, Wheel},
     mp_mode_en : BOOLEAN, mp_mode : {<<>>, <<"7", "7", "7">>},
     mp_acl : AclChoices \cup {"", "posix"},
     mp_recursive : BOOLEAN]

NoAccess ==
    [mp_user_en |-> FALSE, mp_user |-> <<>>, mp_group_en |-> FALSE, mp_group |-> <<>>,
     mp_mode_en |-> FALSE, mp_mode |-> <<>>, mp_acl |-> "", mp_recursive |-> FALSE]

(***************************************************************************)
(* State                                                                   *)
(***************************************************************************)
VARIABLES
    pc,         \* where the request being served stands
    volumes,    \* the Volume rows, vol_name -> vol_encrypt
    scrubs,     \* the volumes that have a Scrub row
    zpool,      \* the data vdevs notifier().zpool_parse reports for pool tank
    form,       \* the data a VolumeManagerForm is bound to
    cleaned,    \* <<the cleaned parent form>> once is_valid has run
    formset,    \* <<the cleaned formset>> once is_valid has run
    saved,      \* <<what save() did>> once it has run
    wizard,         \* the data a ZFSVolumeWizardForm is bound to
    wizard_cleaned, \* <<the cleaned wizard form>> once it is validated
    wizard_result,  \* <<what done() did>> once it has run
    jobs,       \* the tasks.cronjob table, id -> job
    users,      \* the users notifier.get_user_object finds
    request,    \* the CronJobService call being served
    response,   \* <<what the call did>> once it has run
    datasets,       \* the datasets zfs.list_datasets finds, by full name
    paths,          \* the paths under /mnt that exist
    dataset_name,   \* the name the dataset requests of this run carry
    dataset_left,   \* how many more dataset requests this run makes
    dataset_log,    \* the requests served so far, <<operation, outcome>> each
    dataset_reply,  \* <<what the last dataset request did>>
    access,         \* the data a MountPointAccessForm is bound to
    access_path,    \* the path whose permissions are to change
    access_cleaned, \* <<the cleaned form>> once it is validated
    access_calls,   \* the notifier calls commit() made
    replacement,        \* the data a ZFSDiskReplacementForm is bound to, and
                        \* what its volume, the disks and smartd are like
    replace_cleaned,    \* <<the cleaned form>> once it is validated
    replace_result,     \* <<what done() did>> once it has run
    cifs,           \* the SMB service: srv_enable and srv_state
    directoryservice,   \* ad_enable and ldap_enable, by directory service
    api_log         \* the requests of the services API served so far

datasetVars ==
    <<datasets, paths, dataset_name, dataset_left, dataset_log, dataset_reply>>

accessVars == <<access, access_path, access_cleaned, access_calls>>

serviceVars == <<cifs, directoryservice, api_log>>

replaceVars == <<replacement, replace_cleaned, replace_result>>

wizardVars == <<wizard, wizard_cleaned, wizard_result>>

vars == <<pc, volumes, scrubs, zpool, form, cleaned, formset, saved, wizardVars,
          jobs, users, request, response, datasetVars, accessVars, serviceVars,
          replaceVars>>

storageVars == <<volumes, scrubs, zpool, form, cleaned, formset, saved, wizardVars>>

cronVars == <<jobs, users, request, response>>

NoForm == [volume_name |-> <<>>, volume_add |-> <<>>, layout |-> <<>>]

NoRequest == [op |-> "", id |-> 0, data |-> NoJob]

NoStorage ==
    /\ volumes = NoVolumes /\ scrubs = {} /\ zpool = <<>> /\ form = NoForm
    /\ cleaned = <<>> /\ formset = <<>> /\ saved = <<>>
    /\ wizard = NoWizard /\ wizard_cleaned = <<>> /\ wizard_result = <<>>

NoCron == jobs = NoJob /\ users = {} /\ request = NoRequest /\ response = <<>>

NoDatasets ==
    /\ datasets = {} /\ paths = {} /\ dataset_name = <<>> /\ dataset_left = 0
    /\ dataset_log = <<>> /\ dataset_reply = <<>>

\* The variables of the other parts of the program, which a part leaves alone.
NoAccessForm ==
    access = NoAccess /\ access_path = <<>> /\ access_cleaned = <<>> /\ access_calls = <<>>

Stopped == [srv_enable |-> FALSE, srv_state |-> "STOPPED"]

NoServices ==
    /\ cifs = Stopped
    /\ directoryservice = [activedirectory |-> FALSE, ldap |-> FALSE]
    /\ api_log = <<>>

NoReplace ==
    replacement = NoReplacement /\ replace_cleaned = <<>> /\ replace_result = <<>>

notStorage == <<cronVars, datasetVars, accessVars, serviceVars, replaceVars>>

notCron == <<storageVars, datasetVars, accessVars, serviceVars, replaceVars>>

notDatasets == <<storageVars, cronVars, accessVars, serviceVars, replaceVars>>

notAccess == <<storageVars, cronVars, datasetVars, serviceVars, replaceVars>>

notServices == <<storageVars, cronVars, datasetVars, accessVars, replaceVars>>

notReplace == <<storageVars, cronVars, datasetVars, accessVars, serviceVars>>

InitStorage ==
    /\ \/ /\ pc = "form_bound"
          /\ wizard = NoWizard
          /\ \E sc \in Scenarios :
               /\ volumes = sc.env.volumes
               /\ zpool = sc.env.zpool
               /\ \E layout \in Layouts :
                    form = [volume_name |-> sc.volume_name,
                            volume_add |-> sc.volume_add,
                            layout |-> layout]
       \/ /\ pc = "form_bound"
          /\ wizard = NoWizard
          /\ volumes = Mirrored.volumes
          /\ zpool = Mirrored.zpool
          /\ \E prefix \in NamePrefixes : \E n \in 0..MaxFieldLen :
                \E rest \in [1..n -> NameAlphabet] :
                   form = [volume_name |-> prefix \o rest,
                           volume_add |-> <<>>,
                           layout |-> <<[vdevtype |-> "stripe", disks |-> DiskList(1)]>>]
       \/ /\ pc = "wizard_bound"
          /\ form = NoForm
          /\ \E env \in {Fresh, Mirrored, Encrypted} :
               volumes = env.volumes /\ zpool = env.zpool
          /\ \E name \in WizardNames, add \in {<<>>, Tank}, n \in 0..MaxRows + 1,
                group_type \in {"", "stripe", "mirror", "raidz"},
                o \in WizardOptions, post \in WizardPosts :
                   wizard = [volume_name |-> name, volume_add |-> add,
                             volume_disks |-> DiskList(n), group_type |-> group_type,
                             enc |-> o.enc, encini |-> o.encini, dedup |-> o.dedup,
                             post |-> post]
    /\ scrubs = DOMAIN volumes
    /\ cleaned = <<>> /\ formset = <<>> /\ saved = <<>>
    /\ wizard_cleaned = <<>> /\ wizard_result = <<>>
    /\ NoCron /\ NoDatasets /\ NoAccessForm /\ NoServices /\ NoReplace

InitCron ==
    /\ pc = "cron_request"
    /\ \/ jobs \in JobTables /\ users \in FoundUsers /\ request \in Requests
       \/ /\ jobs \in JobTables \ {NoJob}
          /\ users = {Root}
          /\ \E n \in 0..MaxFieldLen : \E text \in [1..n -> FieldAlphabet] :
                \E d \in ListData(text) : request = CreateRequest(d)
    /\ response = <<>>
    /\ NoStorage /\ NoDatasets /\ NoAccessForm /\ NoServices /\ NoReplace

\* A run of dataset requests about one name under /mnt/tank: several
\* requests about a name of the tests, or one request about any short name.
InitDataset ==
    /\ pc = "dataset_requests"
    /\ \/ /\ dataset_name \in DatasetNames
          /\ dataset_left = MaxRequests
          /\ datasets \in SUBSET {FullDatasetName(Tank, dataset_name),
                                  FullDatasetName(Tank, NoneText)}
          /\ paths \in SUBSET {MountPath(FullDatasetName(Tank, dataset_name)),
                               MountPath(FullDatasetName(Tank, NoneText))}
       \/ /\ \E n \in 0..MaxFieldLen : dataset_name \in [1..n -> DatasetAlphabet]
          /\ dataset_left = 1
          /\ datasets \in SUBSET {FullDatasetName(Tank, strip(dataset_name))}
          /\ paths \in SUBSET {MountPath(FullDatasetName(Tank, strip(dataset_name)))}
    /\ dataset_log = <<>> /\ dataset_reply = <<>>
    /\ NoStorage /\ NoCron /\ NoAccessForm /\ NoServices /\ NoReplace

\* A permission change is submitted for a path under /mnt.
InitAccess ==
    /\ pc = "access_bound"
    /\ access \in AccessInputs
    /\ access_path \in {Mnt, MountPath(FullDatasetName(Tank, Smb))}
    /\ access_cleaned = <<>> /\ access_calls = <<>>
    /\ NoStorage /\ NoCron /\ NoDatasets /\ NoServices /\ NoReplace

\* The SMB service stopped or running, each directory service on or off,
\* and no request served yet.
InitServices ==
    /\ pc = "api_requests"
    /\ cifs \in {Stopped, [srv_enable |-> TRUE, srv_state |-> "RUNNING"]}
    /\ directoryservice \in [{"activedirectory", "ldap"} -> BOOLEAN]
    /\ api_log = <<>>
    /\ NoStorage /\ NoCron /\ NoDatasets /\ NoAccessForm /\ NoReplace

(***************************************************************************)
(* Actions                                                                 *)
(***************************************************************************)
\* VolumeManagerForm.is_valid (lines 231-244).
IsValid ==
    /\ pc = "form_bound"
    /\ LET c == VolumeManagerForm_full_clean(form.volume_name, form.volume_add,
                                             DOMAIN volumes)
       IN /\ cleaned' = <<c>>
          /\ formset' = <<VdevFormSet_full_clean(form.layout, c.volume_add, zpool)>>
    /\ pc' = "form_validated"
    /\ UNCHANGED <<volumes, scrubs, zpool, form, saved, wizardVars>>
    /\ UNCHANGED notStorage

FormIsValid == cleaned # <<>> /\ cleaned[1].is_valid /\ formset[1].is_valid

\* VolumeManagerForm.save (lines 260-341), called on a valid form.
Save ==
    /\ pc = "form_validated"
    /\ FormIsValid
    /\ LET plan == VolumeManagerForm_save(cleaned[1], formset[1].forms,
                                          volumes, scrubs, NoFailure)
       IN \E in \in SaveInputs(plan.planned) :
            LET r == VolumeManagerForm_save(cleaned[1], formset[1].forms,
                                            volumes, scrubs, in)
            IN /\ saved' = <<r>>
               /\ volumes' = r.volumes
               /\ scrubs' = r.scrubs
    /\ pc' = "form_saved"
    /\ UNCHANGED <<zpool, form, cleaned, formset, wizardVars>>
    /\ UNCHANGED notStorage

\* The wizard form is validated (ZFSVolumeWizardForm, lines 607-664).
WizardIsValid ==
    /\ pc = "wizard_bound"
    /\ wizard_cleaned' = <<ZFSVolumeWizardForm_full_clean(wizard, DOMAIN volumes)>>
    /\ pc' = "wizard_validated"
    /\ UNCHANGED <<volumes, scrubs, zpool, form, cleaned, formset, saved,
                   wizard, wizard_result>>
    /\ UNCHANGED notStorage

\* ZFSVolumeWizardForm.done (lines 666-749), called on a valid form; any one
\* of its calls may raise.
WizardDone ==
    /\ pc = "wizard_validated"
    /\ wizard_cleaned[1].is_valid
    /\ \E fail \in 0..ZFSVolumeWizardForm_done(wizard_cleaned[1], wizard.post,
                                                volumes, scrubs, 0).planned :
         /\ wizard_result' = <<ZFSVolumeWizardForm_done(wizard_cleaned[1], wizard.post,
                                                        volumes, scrubs, fail)>>
         /\ volumes' = wizard_result'[1].volumes
         /\ scrubs' = wizard_result'[1].scrubs
    /\ pc' = "wizard_done"
    /\ UNCHANGED <<zpool, form, cleaned, formset, saved, wizard, wizard_cleaned>>
    /\ UNCHANGED notStorage

\* The handler's outcome reaches the caller and the table.
Respond(r) == response' = <<r>> /\ jobs' = r.jobs

DoCreate ==
    /\ pc = "cron_request"
    /\ request.op = "create"
    /\ \E fail \in 0..2 : Respond(do_create(request.data, jobs, users, fail))
    /\ pc' = "cron_done"
    /\ UNCHANGED <<users, request>>
    /\ UNCHANGED notCron

DoUpdate ==
    /\ pc = "cron_request"
    /\ request.op = "update"
    /\ \E fail \in 0..2 : Respond(do_update(request.id, request.data, jobs, users, fail))
    /\ pc' = "cron_done"
    /\ UNCHANGED <<users, request>>
    /\ UNCHANGED notCron

DoDelete ==
    /\ pc = "cron_request"
    /\ request.op = "delete"
    /\ \E fail \in 0..2 : Respond(do_delete(request.id, jobs, fail))
    /\ pc' = "cron_done"
    /\ UNCHANGED <<users, request>>
    /\ UNCHANGED notCron

\* The reply reaches the client, and the pool is as the request left it.
DatasetServed(r) ==
    /\ dataset_reply' = <<r>>
    /\ dataset_log' = Append(dataset_log, <<r.op, r.status>>)
    /\ datasets' = r.datasets
    /\ paths' = r.paths
    /\ dataset_left' = dataset_left - 1

\* A dataset is created under tank: ZFSDatasetCreateForm is bound to the
\* request, validated and saved.
DatasetCreate ==
    /\ pc = "dataset_requests"
    /\ dataset_left > 0
    /\ \E sizes \in SizeInputs, err \in BOOLEAN :
          DatasetServed(
              DatasetPost(Tank,
                          ZFSDatasetCreateForm_full_clean(
                              Tank, DatasetData(dataset_name, sizes), datasets, paths),
                          ZFSDatasetCreateForm_save(
                              Tank,
                              ZFSDatasetCreateForm_full_clean(
                                  Tank, DatasetData(dataset_name, sizes), datasets, paths),
                              IF sizes = Sizes(<<"0">>, <<"0">>) THEN "unix" ELSE "windows",
                              err),
                          datasets, paths))
    /\ UNCHANGED <<pc, dataset_name>>
    /\ UNCHANGED notDatasets

\* The dataset is destroyed.
DatasetDestroy ==
    /\ pc = "dataset_requests"
    /\ dataset_left > 0
    /\ DatasetServed(DatasetDelete(Tank, strip(dataset_name), datasets, paths))
    /\ UNCHANGED <<pc, dataset_name>>
    /\ UNCHANGED notDatasets

\* MountPointAccessForm.is_valid: the fields, then clean().
AccessIsValid ==
    /\ pc = "access_bound"
    /\ access_cleaned' = <<MountPointAccessForm_full_clean(access)>>
    /\ pc' = "access_validated"
    /\ UNCHANGED <<access, access_path, access_calls>>
    /\ UNCHANGED notAccess

\* MountPointAccessForm.commit, called on a valid form with the path.
AccessCommit ==
    /\ pc = "access_validated"
    /\ access_cleaned[1].errors = {}
    /\ \E empty_text \in {<<>>, NoneText} :
          access_calls' =
              <<MountPointAccessForm_commit(access_cleaned[1], access_path, empty_text)>>
    /\ pc' = "access_committed"
    /\ UNCHANGED <<access, access_path, access_cleaned>>
    /\ UNCHANGED notAccess

\* PUT /services/services/cifs/ with srv_enable.
ServicePut ==
    /\ pc = "api_requests"
    /\ Len(api_log) < MaxRequests
    /\ \E srv_enable \in BOOLEAN, ok \in BOOLEAN :
          /\ cifs' = PutService(cifs, srv_enable, ok)
          /\ api_log' = Append(api_log,
                               ApiReply("PUT", "cifs", srv_enable, "",
                                        IF ok THEN 200 ELSE 500))
    /\ UNCHANGED <<pc, directoryservice>>
    /\ UNCHANGED notServices

\* GET /services/services/cifs/, of which the tests read srv_state.
ServiceGet ==
    /\ pc = "api_requests"
    /\ Len(api_log) < MaxRequests
    /\ api_log' = Append(api_log, ApiReply("GET", "cifs", cifs.srv_enable, cifs.srv_state, 200))
    /\ UNCHANGED <<pc, cifs, directoryservice>>
    /\ UNCHANGED notServices

\* PUT /directoryservice/activedirectory/1/ or /directoryservice/ldap/1/
\* with the enable flag.
DirectoryServicePut ==
    /\ pc = "api_requests"
    /\ Len(api_log) < MaxRequests
    /\ \E name \in {"activedirectory", "ldap"}, enable \in BOOLEAN,
          ok \in BOOLEAN, started \in BOOLEAN :
          /\ directoryservice' = PutDirectoryService(directoryservice, name, enable, ok)
          /\ cifs' = SmbAfterDirectoryService(cifs, name, enable, ok, started)
          /\ api_log' = Append(api_log,
                               ApiReply("PUT", name, enable, "", IF ok THEN 200 ELSE 500))
    /\ UNCHANGED pc
    /\ UNCHANGED notServices

\* GET /directoryservice/activedirectory/ or /directoryservice/ldap/, of
\* which the tests read the enable flag.
DirectoryServiceGet ==
    /\ pc = "api_requests"
    /\ Len(api_log) < MaxRequests
    /\ \E name \in {"activedirectory", "ldap"} :
          api_log' = Append(api_log, ApiReply("GET", name, directoryservice[name], "", 200))
    /\ UNCHANGED <<pc, cifs, directoryservice>>
    /\ UNCHANGED notServices

\* A ZFSDiskReplacementForm is bound to a volume with or without a passphrase.
InitReplace ==
    /\ pc = "replace_bound"
    /\ \E devname \in FreeDisks \cup {"", "da9"}, force \in BOOLEAN,
          clean \in SUBSET FreeDisks, smartd \in BOOLEAN :
          \/ replacement = [replace_disk |-> devname, force |-> force,
                            pass |-> <<>>, pass2 |-> <<>>,
                            choices |-> FreeDisks, clean |-> clean,
                            vol_encrypt |-> 0, key |-> <<>>, smartd |-> smartd]
          \/ \E pass \in Passphrases, pass2 \in Passphrases :
                replacement = [replace_disk |-> devname, force |-> force,
                               pass |-> pass, pass2 |-> pass2,
                               choices |-> FreeDisks, clean |-> clean,
                               vol_encrypt |-> 2, key |-> <<"p">>, smartd |-> smartd]
    /\ replace_cleaned = <<>> /\ replace_result = <<>>
    /\ NoStorage /\ NoCron /\ NoDatasets /\ NoAccessForm /\ NoServices

\* The form is validated (lines 2205-2232).
ReplaceIsValid ==
    /\ pc = "replace_bound"
    /\ replace_cleaned' = <<ZFSDiskReplacementForm_full_clean(replacement, replacement)>>
    /\ pc' = "replace_validated"
    /\ UNCHANGED <<replacement, replace_result>>
    /\ UNCHANGED notReplace

\* done() (lines 2234-2257), called on a valid form: zfs_replace_disk
\* returns 0 or not, or it or the restart raises.
ReplaceDone ==
    /\ pc = "replace_validated"
    /\ replace_cleaned[1].is_valid
    /\ \E rv \in {0, 1}, fail \in {"", "zfs_replace_disk", "restart"} :
         replace_result' = <<ZFSDiskReplacementForm_done(replace_cleaned[1],
                                                         replacement.smartd, rv, fail)>>
    /\ pc' = "replace_done"
    /\ UNCHANGED <<replacement, replace_cleaned>>
    /\ UNCHANGED notReplace

NextReplace == ReplaceIsValid \/ ReplaceDone

\* A disk replacement is validated and carried out.
SpecReplace == InitReplace /\ [][NextReplace]_vars

NextStorage == IsValid \/ Save \/ WizardIsValid \/ WizardDone

NextServices == ServicePut \/ ServiceGet \/ DirectoryServicePut \/ DirectoryServiceGet

NextAccess == AccessIsValid \/ AccessCommit

NextDataset == DatasetCreate \/ DatasetDestroy

NextCron == DoCreate \/ DoUpdate \/ DoDelete

\* A volume manager form is bound, validated and saved.
SpecStorage == InitStorage /\ [][NextStorage]_vars

\* A call of the cron job service is served.
SpecCron == InitCron /\ [][NextCron]_vars

\* A permission change is validated and committed.
SpecAccess == InitAccess /\ [][NextAccess]_vars

\* Requests to the services and directory services of the REST API.
SpecServices == InitServices /\ [][NextServices]_vars

\* Datasets are created and destroyed under one parent filesystem.
SpecDataset == InitDataset /\ [][NextDataset]_vars

(***************************************************************************)
(* Properties of the volume manager forms                                  *)
(***************************************************************************)
Validated == formset # <<>>

Rows == 1..Len(form.layout)

\* C1: clean_disks rejects a row exactly when its type is mirror, raidz,
\* raidz2 or raidz3 and it has fewer than 2, 3, 4 or 5 disks; rows of any
\* other type are accepted whatever their disk count, and an accepted row
\* keeps its disk list as submitted.
C1_CleanDisksMinimum ==
    Validated =>
        \A i \in Rows :
            LET row == form.layout[i]
                f == formset[1].forms[i]
            IN row.vdevtype # "" =>
                 /\ f.errors <=> Len(row.disks) < MinDisks(row.vdevtype)
                 /\ f.errors => f.need = MinDisks(row.vdevtype)
                 /\ ~f.errors => /\ f.cleaned_data.has_disks
                                 /\ f.cleaned_data.disks = row.disks

\* A raidz3 row of exactly five disks accepted beside a rejected mirror row
\* of one disk.
C1_Witness ==
    /\ Validated
    /\ \E i, j \in Rows :
         /\ form.layout[i].vdevtype = "raidz3"
         /\ Len(form.layout[i].disks) = 5
         /\ ~formset[1].forms[i].errors
         /\ formset[1].forms[i].cleaned_data.disks = DiskList(5)
         /\ form.layout[j].vdevtype = "mirror"
         /\ Len(form.layout[j].disks) = 1
         /\ formset[1].forms[j].errors

CreateMode == Validated /\ cleaned[1].volume_add = <<>>

AddMode == Validated /\ cleaned[1].volume_add # <<>>

DataRowTypes == {form.layout[i].vdevtype : i \in Rows} \cap DataTypes

\* C2: for a new volume (volume_add empty) a layout without a data row, or
\* with data rows of two different types, is rejected; a layout whose data
\* rows share one type fails neither of the two checks.
C2_NewVolumeDataRows ==
    CreateMode =>
        /\ DataRowTypes = {} => ~formset[1].is_valid
        /\ Cardinality(DataRowTypes) > 1 => ~formset[1].is_valid
        /\ Cardinality(DataRowTypes) = 1 =>
              formset[1].non_form_error.code \notin {"need_data", "different_types"}
        /\ formset[1].non_form_error.code = "need_data" => DataRowTypes = {}
        /\ formset[1].non_form_error.code = "different_types" =>
              Cardinality(DataRowTypes) > 1

\* Two data rows that are each valid, of different types, rejected for that.
C2_Witness ==
    /\ CreateMode
    /\ Len(form.layout) = 2
    /\ form.layout[1].vdevtype = "mirror"
    /\ form.layout[2].vdevtype = "raidz"
    /\ \A i \in Rows : ~formset[1].forms[i].errors
    /\ formset[1].non_form_error.code = "different_types"
    /\ ~formset[1].is_valid

\* The rows of a kind: 'log' and 'log mirror' are both of kind log.
RowsOfKind(kind) ==
    {i \in Rows :
        \/ form.layout[i].vdevtype = kind
        \/ kind = "log" /\ form.layout[i].vdevtype = "log mirror"}

\* C3: creating or extending, a layout with more than one cache row, more
\* than one spare row or more than one log row (log and log mirror alike) is
\* rejected, and a layout with at most one row of each kind is not rejected
\* for that reason.
C3_OneRowPerAuxKind ==
    Validated =>
        /\ (\E kind \in {"cache", "spare", "log"} : Cardinality(RowsOfKind(kind)) > 1)
              => ~formset[1].is_valid
        /\ (\A kind \in {"cache", "spare", "log"} : Cardinality(RowsOfKind(kind)) <= 1)
              => formset[1].non_form_error.code # "only_one_row"
        /\ formset[1].non_form_error.code = "only_one_row"
              => Cardinality(RowsOfKind(formset[1].non_form_error.name)) > 1

\* Extending a pool with a log row of one disk and a log row of two disks
\* (a log mirror): rejected as two rows of type log.
C3_Witness ==
    /\ AddMode
    /\ Len(form.layout) = 2
    /\ formset[1].forms[1].cleaned_data.vdevtype = "log"
    /\ formset[1].forms[2].cleaned_data.vdevtype = "log mirror"
    /\ formset[1].non_form_error = Error("only_one_row", "log")
    /\ ~formset[1].is_valid

DataRows == {i \in Rows : form.layout[i].vdevtype \in DataTypes}

Mismatch(i, vdev) ==
    \/ form.layout[i].vdevtype # vdev.type
    \/ Len(form.layout[i].disks) # vdev.ndisks

\* C4: extending a pool (volume_add set), a layout is rejected when one of
\* its data rows differs in type or in disk count from a data vdev of the
\* pool; cache, log and spare rows are not compared, and a layout without a
\* data row is accepted.
C4_ExtendMatchesPool ==
    AddMode =>
        /\ (\E i \in DataRows : \E k \in 1..Len(zpool) : Mismatch(i, zpool[k]))
              => ~formset[1].is_valid
        /\ formset[1].non_form_error.code \in {"pool_type", "pool_count"}
              => \E i \in DataRows : \E k \in 1..Len(zpool) : Mismatch(i, zpool[k])
        /\ formset[1].non_form_error.code # "need_data"
        /\ ( /\ \A i \in DataRows : \A k \in 1..Len(zpool) : ~Mismatch(i, zpool[k])
             /\ \A i \in Rows : ~formset[1].forms[i].errors
             /\ \A kind \in {"cache", "spare", "log"} : Cardinality(RowsOfKind(kind)) <= 1 )
              => formset[1].is_valid

\* A mirror of three disks offered to a pool of two-disk mirrors, beside a
\* cache row: rejected for the disk count.
C4_Witness ==
    /\ AddMode
    /\ zpool = <<Vdev("mirror", 2)>>
    /\ Len(form.layout) = 2
    /\ form.layout[1] = [vdevtype |-> "cache", disks |-> DiskList(1)]
    /\ form.layout[2] = [vdevtype |-> "mirror", disks |-> DiskList(3)]
    /\ formset[1].non_form_error.code = "pool_count"
    /\ ~formset[1].is_valid

\* The rows that have a vdev type after cleaning, in row order.
TypedRows(forms) ==
    LET idx == {i \in 1..Len(forms) : forms[i].cleaned_data.vdevtype # ""}
        Kth(k) == CHOOSE i \in idx : Cardinality({j \in idx : j <= i}) = k
    IN [k \in 1..Cardinality(idx) |->
           [row |-> Kth(k),
            type |-> forms[Kth(k)].cleaned_data.vdevtype,
            disks |-> forms[Kth(k)].cleaned_data.disks]]

IsAttach(c) == c.op = "zfs_volume_attach_group"

IsCreate(c) == c.op = "create_volume"

IsScrub(c) == c.op = "Scrub.create"

\* C5: save() builds the volume in one of two ways.  Without a Volume row of
\* the cleaned name it saves one and calls create_volume once, with every
\* row that has a type, and never zfs_volume_attach_group.  With such a row
\* it calls zfs_volume_attach_group for the rows that have a type, one call
\* per row in row order (all of them unless one of these calls raises), and
\* neither calls create_volume nor creates a Scrub row.
C5_SaveDelegates ==
    [][(pc = "form_validated" /\ pc' = "form_saved") =>
        LET name == cleaned[1].volume_name
            existed == name \in DOMAIN volumes
            r == saved'[1]
            typed == TypedRows(formset[1].forms)
            attach == SelectSeq(r.calls, IsAttach)
            create == SelectSeq(r.calls, IsCreate)
        IN /\ ~existed =>
                /\ Len(create) = 1
                /\ r.calls[1] = create[1]
                /\ create[1].groups = typed
                /\ attach = <<>>
                /\ ~r.raised => name \in DOMAIN volumes' /\ name \in scrubs'
           /\ existed =>
                /\ Len(attach) <= Len(typed)
                /\ \A k \in 1..Len(attach) :
                      /\ attach[k].groups = <<typed[k]>>
                      /\ r.calls[k] = attach[k]
                /\ (Len(attach) < Len(typed)) =>
                      r.raised /\ Len(r.calls) = Len(attach)
                /\ create = <<>>
                /\ SelectSeq(r.calls, IsScrub) = <<>>
                /\ scrubs' = scrubs
    ]_vars

\* A pool extended by two rows: two attach calls, the first for the first
\* row and the second for the last, and a normal return.
C5_Witness ==
    /\ pc = "form_saved"
    /\ saved[1].add
    /\ ~saved[1].raised
    /\ Len(form.layout) >= 2
    /\ Len(SelectSeq(saved[1].calls, IsAttach)) = 2
    /\ saved[1].calls[1].groups[1].row = 1
    /\ saved[1].calls[2].groups[1].row = Len(form.layout)

(***************************************************************************)
(* Properties of the cron job service                                      *)
(***************************************************************************)
Served == pc = "cron_request" /\ pc' = "cron_done"

Done == pc = "cron_done"

\* The job validate_data is given: the submitted data, or the stored job
\* overridden by the patch.
Submitted ==
    IF request.op = "create" THEN request.data ELSE request.data @@ jobs[request.id]

Validates ==
    \/ request.op = "create"
    \/ request.op = "update" /\ request.id \in DOMAIN jobs

Field(d, f) == IF f \in DOMAIN d THEN d[f] ELSE <<>>

DecimalDigits == <<"0", "1", "2", "3", "4", "5", "6", "7", "8", "9">>

Decimal(n) ==
    IF n < 10 THEN <<DecimalDigits[n + 1]>>
    ELSE <<DecimalDigits[(n \div 10) + 1], DecimalDigits[(n % 10) + 1]>>

\* piece is a numeral of n: its decimal digits after any number of zeros and
\* an optional plus sign, with blanks allowed around it.
Denotes(piece, n) ==
    \E a \in 0..Len(piece) : \E k, b \in a..Len(piece) :
        /\ k <= b
        /\ \A i \in 1..a : piece[i] = " "
        /\ \A i \in (b + 1)..Len(piece) : piece[i] = " "
        /\ SubSeq(piece, k + 1, b) = Decimal(n)
        /\ \A i \in (a + 1)..k : piece[i] = "0" \/ (i = a + 1 /\ piece[i] = "+")

\* text is a comma-separated list of integers of lo..hi.
IntegerList(text, lo, hi) ==
    LET cuts == {0, Len(text) + 1} \cup {i \in 1..Len(text) : text[i] = ","}
    IN \A a, b \in cuts :
          (a < b /\ \A c \in cuts : ~(a < c /\ c < b))
             => \E n \in lo..hi : Denotes(SubSeq(text, a + 1, b - 1), n)

Faulty(text, hi) == text # <<>> /\ text # <<"*">> /\ ~IntegerList(text, 1, hi)

ErrorsOn(r, attribute) == {k \in 1..Len(r.verrors) : r.verrors[k].attribute = attribute}

\* C6: validate_data reports an error on dayweek exactly when it is neither
\* empty nor '*' nor a comma-separated list of integers of 1..7, and on
\* month exactly when it is neither empty nor '*' nor such a list of
\* integers of 1..12; neither check depends on the other field.
C6_ListFields ==
    [][(Served /\ Validates) =>
        LET r == response'[1] IN
        /\ Cardinality(ErrorsOn(r, "weekday")) =
              (IF Faulty(Field(Submitted, "dayweek"), 7) THEN 1 ELSE 0)
        /\ Cardinality(ErrorsOn(r, "month")) =
              (IF Faulty(Field(Submitted, "month"), 12) THEN 1 ELSE 0)
    ]_vars

\* A job with week days 1,8 and month 13: one error for each field.
C6_Witness ==
    /\ Done
    /\ request.op = "create"
    /\ Field(request.data, "dayweek") = <<"1", ",", "8">>
    /\ Field(request.data, "month") = <<"1", "3">>
    /\ response[1].raised
    /\ Len(response[1].verrors) = 2
    /\ response[1].verrors[1] =
          VError("weekday", "The week days should be in range of 1-7 inclusive")
    /\ response[1].verrors[2] =
          VError("month", "The months should be in range of 1-12 inclusive")

IsLookup(c) == c.method = "notifier.get_user_object"

HasSpace(user) == \E i \in 1..Len(user) : user[i] = " "

UserErrors(r) == SelectSeq(r.verrors, LAMBDA e : e.attribute = "user")

\* C7: a non-empty user with a space gets 'Usernames cannot have spaces' and
\* is not looked up; a non-empty user without a space gets 'Specified user
\* does not exist' exactly when notifier.get_user_object finds nobody; there
\* is at most one error on the user.
C7_UserCheck ==
    [][(Served /\ Validates) =>
        LET r == response'[1]
            user == Field(Submitted, "user")
            lookups == SelectSeq(r.calls, IsLookup)
        IN /\ Len(UserErrors(r)) <= 1
           /\ (user # <<>> /\ HasSpace(user)) =>
                 /\ UserErrors(r) = <<VError("user", "Usernames cannot have spaces")>>
                 /\ lookups = <<>>
           /\ (user # <<>> /\ ~HasSpace(user)) =>
                 /\ Len(lookups) = 1
                 /\ lookups[1].data = [user |-> user]
                 /\ user \notin users =>
                       UserErrors(r) = <<VError("user", "Specified user does not exist")>>
                 /\ user \in users => UserErrors(r) = <<>>
           /\ user = <<>> => UserErrors(r) = <<>> /\ lookups = <<>>
    ]_vars

\* A user with a space who exists: rejected for the space and never looked up.
C7_Witness ==
    /\ Done
    /\ request.op = "create"
    /\ request.data.user = Spaced
    /\ Spaced \in users
    /\ response[1].verrors = <<VError("user", "Usernames cannot have spaces")>>
    /\ SelectSeq(response[1].calls, IsLookup) = <<>>

IsWrite(c) == c.method \in {"datastore.insert", "datastore.update", "datastore.delete"}

IsRestart(c) == c.method = "service.restart"

\* C8: when validation of the submitted data reports an error, do_create and
\* do_update raise the errors, issue no datastore.insert, no datastore.update
\* and no restart of cron, and leave the stored jobs as they were.
C8_InvalidChangesNothing ==
    [][(Served /\ Validates /\ validate_data(Submitted, users).verrors # <<>>) =>
        LET r == response'[1] IN
        /\ r.raised
        /\ r.verrors = validate_data(Submitted, users).verrors
        /\ SelectSeq(r.calls, IsWrite) = <<>>
        /\ SelectSeq(r.calls, IsRestart) = <<>>
        /\ jobs' = jobs
    ]_vars

\* A job submitted with month 13 to a table of two jobs: raised, nothing
\* written.
C8_Witness ==
    /\ Done
    /\ request.op = "create"
    /\ Field(request.data, "month") = <<"1", "3">>
    /\ DOMAIN jobs = {1, 2}
    /\ response[1].raised
    /\ response[1].verrors # <<>>
    /\ SelectSeq(response[1].calls, IsWrite) = <<>>

IsUpdate(c) == c.method = "datastore.update"

\* C9: do_update validates the stored job merged with the patch.  When the
\* merged job equals the stored one it issues no datastore.update and no
\* restart; when a field differs it issues one datastore.update, with the
\* merged job; a normal return gives the job as it is stored after the call.
C9_UpdateOnlyOnChange ==
    [][(Served /\ request.op = "update" /\ request.id \in DOMAIN jobs) =>
        LET r == response'[1]
            stored == jobs[request.id]
            merged == request.data @@ stored
            updates == SelectSeq(r.calls, IsUpdate)
        IN /\ (r.verrors # <<>>) <=> (validate_data(merged, users).verrors # <<>>)
           /\ (r.verrors = <<>> /\ merged = stored) =>
                 /\ updates = <<>>
                 /\ SelectSeq(r.calls, IsRestart) = <<>>
                 /\ jobs' = jobs
                 /\ ~r.raised
           /\ (r.verrors = <<>> /\ merged # stored) =>
                 /\ updates = <<MCall("datastore.update", request.id, merged)>>
                 /\ ~r.raised => jobs' = [jobs EXCEPT ![request.id] = merged]
           /\ ~r.raised => r.value = jobs'[request.id] /\ r.id = request.id
    ]_vars

\* Job 1 patched with another month: one update, and the merged job returned.
C9_Witness ==
    /\ Done
    /\ request.op = "update"
    /\ request.id = 1
    /\ DOMAIN request.data = {"month"}
    /\ request.data.month = <<"*">>
    /\ ~response[1].raised
    /\ Len(SelectSeq(response[1].calls, IsUpdate)) = 1
    /\ response[1].value = Job(<<"c">>, <<"*">>, <<"*">>, Root)
    /\ jobs[1] = response[1].value

Positions(calls, Test(_)) == {k \in 1..Len(calls) : Test(calls[k])}

\* C10: a do_create, a do_update that changes a field and a do_delete that
\* return normally have issued one restart of cron, after their one
\* datastore insert, update or delete; no restart is ever issued before that
\* call has completed; do_create returns the submitted data with the id of
\* the inserted row.
C10_RestartAfterWrite ==
    [][Served =>
        LET r == response'[1]
            writes == Positions(r.calls, IsWrite)
            restarts == Positions(r.calls, IsRestart)
            changes == \/ request.op \in {"create", "delete"}
                       \/ /\ request.op = "update"
                          /\ request.id \in DOMAIN jobs
                          /\ (request.data @@ jobs[request.id]) # jobs[request.id]
        IN /\ (~r.raised /\ changes) =>
                 /\ Cardinality(restarts) = 1
                 /\ Cardinality(writes) = 1
           /\ (~r.raised /\ ~changes) => restarts = {}
           /\ \A k \in restarts :
                 /\ \E w \in writes : w < k
                 /\ request.op = "create" =>
                       DOMAIN jobs' = DOMAIN jobs \cup {NewId(jobs)}
                 /\ request.op = "update" =>
                       jobs'[request.id] = request.data @@ jobs[request.id]
                 /\ request.op = "delete" => request.id \notin DOMAIN jobs'
           /\ (~r.raised /\ request.op = "create") =>
                 /\ r.value = request.data
                 /\ r.id \notin DOMAIN jobs
                 /\ r.id \in DOMAIN jobs'
                 /\ jobs'[r.id] = request.data
                 /\ r.calls[CHOOSE w \in writes : TRUE].data = request.data
    ]_vars

\* Job 2 deleted: the delete, then one restart.
C10_Witness ==
    /\ Done
    /\ request.op = "delete"
    /\ request.id = 2
    /\ ~response[1].raised
    /\ DOMAIN jobs = {1}
    /\ response[1].calls = <<MCall("datastore.delete", 2, NoJob), Restart>>

(***************************************************************************)
(* Properties of dataset creation                                          *)
(***************************************************************************)
\* The name the form holds for the request: the submitted one, stripped.
RequestedName == strip(dataset_name)

RequestedDataset == FullDatasetName(Tank, RequestedName)

WellFormedDatasetName(n) ==
    /\ n # <<>>
    /\ n[1] \in Alphanumerics
    /\ \A i \in 1..Len(n) : n[i] \in Alphanumerics \cup {"-", "_", ":", ".", " "}

DatasetRequestServed(op) ==
    /\ pc = "dataset_requests"
    /\ dataset_log' # dataset_log
    /\ dataset_reply'[1].op = op

AccessValid == access_cleaned # <<>> /\ access_cleaned[1].errors = {}

\* The keyword arguments whose 'apply' flag the request sets.
Applied ==
    {k \in {"user", "group", "mode"} :
        \/ k = "user" /\ access.mp_user_en
        \/ k = "group" /\ access.mp_group_en
        \/ k = "mode" /\ access.mp_mode_en}

\* C12: a permission change of type unix or mac is valid only if a mode is
\* given, whether or not the mode is to be applied; one of type windows is
\* valid without a mode.  commit() makes one call of mp_change_permission,
\* with the path, the permission type and the recursive flag, and with
\* exactly those of user, group and mode whose flag is set, each with the
\* submitted value.
C12_PermissionChange ==
    /\ access_cleaned # <<>> =>
          /\ (AccessValid /\ access.mp_acl \in {"unix", "mac"}) => access.mp_mode # <<>>
          /\ (access.mp_acl \in {"unix", "mac"} /\ access.mp_mode = <<>>)
                => "mp_mode" \in access_cleaned[1].errors
          /\ (access.mp_acl = "windows" /\ access.mp_user # <<>> /\ access.mp_group # <<>>)
                => AccessValid
          /\ (access.mp_acl \in AclChoices /\ access.mp_mode # <<>>
                /\ access.mp_user # <<>> /\ access.mp_group # <<>>) => AccessValid
    /\ pc = "access_committed" =>
          /\ Len(access_calls) = 1
          /\ access_calls[1].op = "mp_change_permission"
          /\ access_calls[1].path = access_path
          /\ access_calls[1].acl = access.mp_acl
          /\ access_calls[1].recursive = access.mp_recursive
          /\ DOMAIN access_calls[1].kwargs = Applied
          /\ "user" \in Applied => access_calls[1].kwargs["user"] = access.mp_user
          /\ "group" \in Applied => access_calls[1].kwargs["group"] = access.mp_group
          /\ ("mode" \in Applied /\ access.mp_mode # <<>>)
                => access_calls[1].kwargs["mode"] = access.mp_mode

\* The change of the tests (unix, mode 777, root, wheel) with only the mode
\* to be applied: the call carries the mode and neither user nor group.
C12_Witness ==
    /\ pc = "access_committed"
    /\ access.mp_acl = "unix"
    /\ access.mp_mode = <<"7", "7", "7">>
    /\ access.mp_user = Root /\ access.mp_group = Wheel
    /\ access.mp_mode_en /\ ~access.mp_user_en /\ ~access.mp_group_en
    /\ access_path = MountPath(FullDatasetName(Tank, Smb))
    /\ DOMAIN access_calls[1].kwargs = {"mode"}
    /\ access_calls[1].kwargs["mode"] = <<"7", "7", "7">>

(***************************************************************************)
(* Properties of the services API                                          *)
(***************************************************************************)
\* The request this step serves.
Served_api == api_log'[Len(api_log')]

ApiStep == pc = "api_requests" /\ Len(api_log') = Len(api_log) + 1

\* The successful PUTs to a resource served so far.
PutsTo(resource) ==
    {k \in 1..Len(api_log) :
        /\ api_log[k].method = "PUT"
        /\ api_log[k].resource = resource
        /\ api_log[k].status = 200}

LastOf(S) == CHOOSE k \in S : \A j \in S : j <= k

\* C13: a GET of the SMB service that directly follows a successful PUT of
\* srv_enable reports srv_state RUNNING when the PUT enabled the service and
\* STOPPED when it disabled it.
C13_SmbStateFollowsEnable ==
    [][(/\ ApiStep
        /\ Served_api.method = "GET"
        /\ Served_api.resource = "cifs"
        /\ Len(api_log) \in PutsTo("cifs")) =>
            /\ api_log[Len(api_log)].enable => Served_api.srv_state = "RUNNING"
            /\ ~api_log[Len(api_log)].enable => Served_api.srv_state = "STOPPED"
    ]_vars

\* The service started and asked, then stopped and asked.
C13_Witness ==
    /\ Len(api_log) = 4
    /\ api_log[1] = ApiReply("PUT", "cifs", TRUE, "", 200)
    /\ api_log[2] = ApiReply("GET", "cifs", TRUE, "RUNNING", 200)
    /\ api_log[3] = ApiReply("PUT", "cifs", FALSE, "", 200)
    /\ api_log[4] = ApiReply("GET", "cifs", FALSE, "STOPPED", 200)

\* C14: a GET of a directory service returns the enable flag of the last
\* successful PUT to it, whatever was requested of the other services in
\* between; and a GET of the SMB service reports STOPPED when, since Active
\* Directory was last disabled, neither the SMB service nor Active Directory
\* has been PUT successfully.
C14_DirectoryServiceEnable ==
    [][(ApiStep /\ Served_api.method = "GET") =>
          /\ \A name \in {"activedirectory", "ldap"} :
                (Served_api.resource = name /\ PutsTo(name) # {}) =>
                    Served_api.enable = api_log[LastOf(PutsTo(name))].enable
          /\ ( /\ Served_api.resource = "cifs"
               /\ PutsTo("activedirectory") # {}
               /\ ~api_log[LastOf(PutsTo("activedirectory"))].enable
               /\ \A k \in PutsTo("cifs") : k < LastOf(PutsTo("activedirectory")) )
                => Served_api.srv_state = "STOPPED"
    ]_vars

\* The SMB service started, Active Directory disabled, and then Active
\* Directory reported disabled and the SMB service stopped.
C14_Witness ==
    /\ Len(api_log) = 4
    /\ api_log[1] = ApiReply("PUT", "cifs", TRUE, "", 200)
    /\ api_log[2] = ApiReply("PUT", "activedirectory", FALSE, "", 200)
    /\ api_log[3] = ApiReply("GET", "activedirectory", FALSE, "", 200)
    /\ api_log[4] = ApiReply("GET", "cifs", TRUE, "STOPPED", 200)

(***************************************************************************)
(* Properties of VolumeMixin.clean_volume_name                             *)
(***************************************************************************)
Letters == LowerLetters \cup UpperLetters

\* The name clean_volume_name is given: the field's value.
CleanedVolumeName == strip(form.volume_name)

BeginsWith(name, word) ==
    Len(name) >= Len(word) /\ \A i \in 1..Len(word) : name[i] = word[i]

Reserved(name) ==
    \/ name = <<"l", "o", "g">>
    \/ Len(name) >= 2 /\ name[1] = "c" /\ name[2] \in Digits
    \/ BeginsWith(name, <<"m", "i", "r", "r", "o", "r">>)
    \/ BeginsWith(name, <<"s", "p", "a", "r", "e">>)
    \/ BeginsWith(name, <<"r", "a", "i", "d", "z">>)

\* C15: clean_volume_name accepts a non-empty name exactly when it starts
\* with a letter, holds only letters, digits, '-', '_' and '.', names no
\* Volume row, is not 'log' and does not start with 'c' and a digit,
\* 'mirror', 'spare' or 'raidz'; any other non-empty name is an error of the
\* field.  (The Volume rows are those at the time the form is validated.)
C15_VolumeNameRules ==
    (pc = "form_validated" /\ CleanedVolumeName # <<>>) =>
        (cleaned[1].name_error = "" <=>
            /\ CleanedVolumeName[1] \in Letters
            /\ \A i \in 1..Len(CleanedVolumeName) :
                  CleanedVolumeName[i] \in Letters \cup Digits \cup {"-", "_", "."}
            /\ CleanedVolumeName \notin DOMAIN volumes
            /\ ~Reserved(CleanedVolumeName))

\* 'spare1' refused for its prefix beside the volume tank.
C15_Witness ==
    /\ pc = "form_validated"
    /\ form.volume_name = <<"s", "p", "a", "r", "e", "1">>
    /\ Tank \in DOMAIN volumes
    /\ cleaned[1].name_error = "reserved_prefix"
    /\ ~cleaned[1].is_valid

(***************************************************************************)
(* Failures while a volume is built                                        *)
(***************************************************************************)
\* save() or done() has just run.
Built ==
    \/ pc = "form_validated" /\ pc' = "form_saved"
    \/ pc = "wizard_validated" /\ pc' = "wizard_done"

\* What it did.
Outcome == IF pc = "form_saved" THEN saved[1] ELSE wizard_result[1]

IsReloadOrRestart(c) == c.op \in {"reload", "restart", "start"}

\* The rows are as before the call, the exception reaches the caller and no
\* service was reloaded or restarted.
RolledBack ==
    /\ Outcome'.raised
    /\ volumes' = volumes
    /\ scrubs' = scrubs
    /\ SelectSeq(Outcome'.calls, IsReloadOrRestart) = <<>>

\* C16 as stated: whichever notifier call, or the Scrub creation, fails
\* while save() or done() creates a new volume, the Volume row and the Scrub
\* row are deleted again, the exception is re-raised and no service is
\* reloaded or restarted.
C16_AnyFailureRollsBack ==
    [][(Built /\ ~Outcome'.add /\ Outcome'.failed # 0) => RolledBack]_vars

\* C16: if create_volume, zfs_set_option or the Scrub creation fails while
\* save() or done() creates a new volume, the Volume row saved at the start
\* and any Scrub row created are deleted again and the exception is
\* re-raised: the Volume and Scrub rows are those before the call, and no
\* service reload or restart is issued.
C16_CreationFailureRollsBack ==
    [][(/\ Built
        /\ ~Outcome'.add
        /\ Outcome'.failed # 0
        /\ Outcome'.calls[Outcome'.failed].op
              \in {"create_volume", "zfs_set_option", "Scrub.create"})
       => RolledBack]_vars

\* done() on a system without volumes: create_volume went through,
\* zfs_set_option raised, and no Volume row is left.
C16_Witness ==
    /\ pc = "wizard_done"
    /\ ~wizard_result[1].add
    /\ wizard_result[1].caught
    /\ Len(wizard_result[1].calls) = 2
    /\ wizard_result[1].calls[1].op = "create_volume"
    /\ wizard_result[1].calls[2].op = "zfs_set_option"
    /\ DOMAIN volumes = {}
    /\ scrubs = {}

\* C17: a Volume row that existed before save() or done() still exists
\* after it, whatever the outcome; in particular when attaching vdevs to an
\* existing volume fails.
C17_ExistingVolumeKept ==
    [][Built => \A n \in DOMAIN volumes : n \in DOMAIN volumes']_vars

(***************************************************************************)
(* Properties of ZFSDiskReplacementForm                                    *)
(***************************************************************************)
\* The disk submitted is one disk_check_clean reports as not clean.
NotClean == replacement.replace_disk # "" /\ replacement.replace_disk \notin replacement.clean

IsSmartdRestart(c) == c.op = "restart" /\ c.devname = "smartd"

\* C18: a form whose replacement disk disk_check_clean reports as not clean
\* has an error and is invalid unless 'force' is set (the error is the one
\* on 'force' when the disk is a choice of the field, and is put there for
\* no other form); done() returns True exactly when zfs_replace_disk
\* returned 0 (and done() returns at all), and smartd is restarted only when
\* zfs_replace_disk returned 0 and the smartd service is enabled.
C18_DiskReplacement ==
    /\ replace_cleaned # <<>> =>
          /\ (NotClean /\ ~replacement.force) =>
                /\ ~replace_cleaned[1].is_valid
                /\ replace_cleaned[1].force_error \/ replace_cleaned[1].disk_error # ""
          /\ (replacement.replace_disk \in replacement.choices) =>
                (replace_cleaned[1].force_error <=> (NotClean /\ ~replacement.force))
          /\ replace_cleaned[1].force_error => NotClean /\ ~replacement.force
    /\ replace_result # <<>> =>
          /\ ~replace_result[1].raised =>
                (replace_result[1].returned <=> replace_result[1].rv = 0)
          /\ replace_result[1].returned => replace_result[1].rv = 0
          /\ SelectSeq(replace_result[1].calls, IsSmartdRestart) # <<>> =>
                replace_result[1].rv = 0 /\ replacement.smartd
          /\ (replace_result[1].returned /\ replacement.smartd) =>
                Len(SelectSeq(replace_result[1].calls, IsSmartdRestart)) = 1

\* A disk with partitions on it is replaced with 'force' set on a volume with
\* a passphrase: the form is valid, zfs_replace_disk returns 0, smartd is
\* restarted and done() returns True.
C18_Witness ==
    /\ pc = "replace_done"
    /\ NotClean
    /\ replacement.force
    /\ replacement.vol_encrypt = 2
    /\ replace_result[1].returned
    /\ replace_result[1].calls[1].passphrase = <<"p">>
    /\ Len(replace_result[1].calls) = 2
====
